---- MODULE Spec2Model ----
(***************************************************************************)
(* The per-layer inode cache of lcfs (src/lcfs/inode.c): lookup across the *)
(* parent chain, copy-on-write cloning, inode locks and the dirty-inode    *)
(* flusher.  Inodes live in a heap (the sequence inode); an inode pointer  *)
(* is an index into it and NULL is 0.  A bucket's linked list (ic_head and *)
(* the i_cnext links) is the sequence of heap indices, head first.         *)
(***************************************************************************)
EXTENDS Integers, Sequences, FiniteSets, TLC

\* ------------------------------------------------------------- bounds
NLayers == 3          \* layers 1 (base, global fs) <- 2 <- ... <- NLayers (leaf)
NThreads == 2         \* request threads
MaxInodes == 8        \* inode records ever allocated
LC_ICACHE_SIZE == 2   \* buckets per layer
LC_INODE_CLUSTER_SIZE == 2   \* inode blocks reserved at a time
LC_CLUSTER_SIZE == 2  \* pages of a cluster
LC_IBLOCK_MAX == 2    \* inode block addresses per inode-block record
MaxWrites == 2        \* lc_syncInodes is called while fs_iwrite is below this
MaxAlloc == 3         \* inode numbers handed out where allocation is checked
MaxRecords == 2       \* inode-block records of a chain given to the loader

\* ---------------------------------------------------------- constants
NULL == 0
LC_INVALID_BLOCK == -1

Layers == 1..NLayers
Threads == 1..NThreads
Buckets == 0..(LC_ICACHE_SIZE - 1)
Leaf == NLayers
Ancestors == 1..(NLayers - 1)

\* Inode numbers: layer l's root is l, then one data inode, then the snapshot
\* root; the superblock counter hands out the numbers after that.
DataIno == NLayers + 1
SnapRootIno == NLayers + 2
MaxIno == NLayers + 3
Inos == 1..MaxIno

S_IFREG == "REG"
S_IFDIR == "DIR"
S_IFLNK == "LNK"

VARIABLES
    inode,            \* heap of struct inode
    fs_icache,        \* [layer -> [bucket -> chain of inode pointers]]
    ic_lock,          \* [layer -> [bucket -> owner thread or NULL]]
    fs_ilock,         \* [layer -> owner thread or NULL]
    fs_root,          \* [layer -> root inode number]
    fs_rootInode,     \* [layer -> inode pointer or NULL]
    fs_parent,        \* [layer -> parent layer or NULL]
    fs_snap,          \* [layer -> first child layer or NULL]
    fs_frozen,        \* [layer -> BOOLEAN]
    fs_removed,       \* [layer -> BOOLEAN]
    fs_icount,        \* [layer -> resident inode counter]
    gfs,              \* sb_inodes, sb_ninode, gfs_clones, gfs_snap_root, gfs_snap_rootInode
    fs_inodePages,    \* [layer -> staging list of pages, head first]
    fs_inodePagesCount, \* [layer -> count of staged pages]
    fs_inodeBlocks,   \* [layer -> chain of open inode-block records, current first]
    fs_inodeIndex,    \* [layer -> next slot of the current record]
    fs_blockInodes,   \* [layer -> next block of the reserved run]
    fs_blockInodesCount, \* [layer -> blocks left in the reserved run]
    fs_iwrite,        \* [layer -> inodes written]
    sb_inodeBlock,    \* [layer -> committed chain of inode-block records, head first]
    disk,             \* [block -> page data written]
    nextBlock,        \* the block allocator's cursor
    pc,               \* [thread -> position]
    th                \* [thread -> locals of the running call]

cacheVars == <<inode, fs_icache, ic_lock, fs_ilock, fs_root, fs_rootInode,
               fs_parent, fs_snap, fs_frozen, fs_removed, fs_icount, gfs>>
flushVars == <<fs_inodePages, fs_inodePagesCount, fs_inodeBlocks, fs_inodeIndex,
               fs_blockInodes, fs_blockInodesCount, fs_iwrite, sb_inodeBlock,
               disk, nextBlock>>
vars == <<cacheVars, flushVars, pc, th>>

\* ------------------------------------------------------------ helpers
Min(S) == CHOOSE x \in S : \A y \in S : x <= y
Max(S) == CHOOSE x \in S : \A y \in S : x >= y

S_ISREG(mode) == mode.fmt = S_IFREG
S_ISDIR(mode) == mode.fmt = S_IFDIR
S_ISLNK(mode) == mode.fmt = S_IFLNK

NoLock == [w |-> NULL, r |-> {}]

\* lc_newInode: a zeroed record with the three block fields invalid.
\* cloneOf is a history field: the record this one was cloned from.
lc_newInode ==
    [st_ino |-> 0, st_mode |-> [fmt |-> "NONE", perm |-> 0], st_nlink |-> 0,
     st_blocks |-> 0, st_size |-> 0,
     i_fs |-> NULL, i_parent |-> 0, i_block |-> LC_INVALID_BLOCK,
     i_extentBlock |-> 0, i_extentLength |-> 0,
     i_bmap |-> NULL, i_bcount |-> 0, i_dirent |-> NULL, i_target |-> NULL,
     i_dirty |-> FALSE, i_bmapdirty |-> FALSE, i_dirdirty |-> FALSE,
     i_xattrdirty |-> FALSE, i_removed |-> FALSE, i_shared |-> FALSE,
     i_private |-> FALSE, i_rwlock |-> NoLock, cloneOf |-> NULL]

lc_inodeHash(ino) == ino % LC_ICACHE_SIZE

\* A lookup that looks at the head of the chain only.
lc_lookupInodeCache_head_only(fs, ino) ==
    LET chain == fs_icache[fs][ino % LC_ICACHE_SIZE]
    IN  IF chain # <<>> /\ inode[chain[1]].st_ino = ino THEN chain[1] ELSE NULL

\* lc_lookupInodeCache: the first record of the bucket chain with the number.
lc_lookupInodeCache(fs, ino) ==
    LET chain == fs_icache[fs][lc_inodeHash(ino)]
        hits == {k \in 1..Len(chain) : inode[chain[k]].st_ino = ino}
    IN  IF hits = {} THEN NULL ELSE chain[Min(hits)]

\* lc_lookupInode: the two shortcuts, then the bucket.
lc_lookupInode(fs, ino) ==
    IF ino = fs_root[fs] THEN fs_rootInode[fs]
    ELSE IF ino = gfs.gfs_snap_root THEN gfs.gfs_snap_rootInode
    ELSE lc_lookupInodeCache(fs, ino)

\* Records of layer fs numbered ino, over all its buckets.
Resident(fs) == UNION {{fs_icache[fs][b][k] : k \in 1..Len(fs_icache[fs][b])} : b \in Buckets}
CountIn(fs, ino) ==
    LET chain == fs_icache[fs][lc_inodeHash(ino)]
    IN  Cardinality({k \in 1..Len(chain) : inode[chain[k]].st_ino = ino})

\* ------------------------------------------------ disk and block allocator
\* A zeroed st_mode.
NoMode == [fmt |-> "NONE", perm |-> 0]

\* What lc_flushInode puts in the page of a record: the dinode, with the mode
\* zeroed when the inode is removed, and after it the target of a symbolic
\* link, st_size bytes of it.
PageData(rec) ==
    [st_ino |-> rec.st_ino,
     st_mode |-> IF rec.i_removed THEN NoMode ELSE rec.st_mode,
     st_nlink |-> rec.st_nlink, st_size |-> rec.st_size, st_blocks |-> rec.st_blocks,
     i_parent |-> rec.i_parent,
     i_extentBlock |-> rec.i_extentBlock, i_extentLength |-> rec.i_extentLength,
     target |-> IF S_ISLNK(rec.st_mode) /\ rec.st_size > 0 THEN rec.i_target ELSE NULL]

\* Blocks below StartBlock hold what was written before the mount.
StartBlock == 100 + MaxInodes + 1
\* Records the heap holds at most when layers are mounted again.
MaxHeap == MaxInodes
MaxBlock == StartBlock + (LC_INODE_CLUSTER_SIZE + 1) * MaxInodes

\* lc_blockAllocExact: the start of a free run of LC_INODE_CLUSTER_SIZE
\* blocks, which follows the run handed out before or leaves a gap.
lc_blockAllocExact(reserve) ==
    IF reserve
    THEN {b \in {nextBlock, nextBlock + 1} : b + LC_INODE_CLUSTER_SIZE - 1 <= MaxBlock}
    ELSE {nextBlock}

\* lc_newInodeBlock: a fresh inode-block record becomes the current one.
lc_newInodeBlock(chain) == <<<<>>>> \o chain

\* lc_flushInodeBlocks: the open records are written and linked in front of
\* the chain the superblock points to.  A record is the sequence of its used
\* slots; the slots after them are zero.
lc_flushInodeBlocks(committed, chain) == chain \o committed

\* The block addresses in the slots of a chain of inode-block records.
ChainBlocks(chain) ==
    UNION {{chain[r][k] : k \in 1..Len(chain[r])} : r \in 1..Len(chain)}
    \ {LC_INVALID_BLOCK}

\* Block addresses packed into records of LC_IBLOCK_MAX slots.
RECURSIVE Pack(_)
Pack(blocks) ==
    IF Len(blocks) <= LC_IBLOCK_MAX
    THEN IF blocks = <<>> THEN <<>> ELSE <<blocks>>
    ELSE <<SubSeq(blocks, 1, LC_IBLOCK_MAX)>>
         \o Pack(SubSeq(blocks, LC_IBLOCK_MAX + 1, Len(blocks)))

\* --------------------------------------------------- state after mount
\* The ancestors 1..NLayers-1 are loaded, read-only layers (each has a child);
\* the leaf is a new layer whose root lc_rootInit has still to create.  The
\* data inode is in each ancestor absent, live or removed.
Kinds == {"REGempty", "REGextent", "REGbmap", "DIR", "LNK"}
Presence == [Ancestors -> {"absent", "live", "removed"}]

RootRec(l) ==
    [lc_newInode EXCEPT !.st_ino = l, !.st_mode = [fmt |-> S_IFDIR, perm |-> 755],
                        !.st_nlink = 2, !.i_parent = l, !.i_fs = l,
                        !.i_block = 100 + l]
SnapRec ==
    [lc_newInode EXCEPT !.st_ino = SnapRootIno,
                        !.st_mode = [fmt |-> S_IFDIR, perm |-> 755],
                        !.st_nlink = 2, !.i_parent = 1, !.i_fs = 1,
                        !.i_block = 100 + NLayers, !.i_dirent = NLayers]
DataRec(l, id, kind, state) ==
    LET live == state = "live"
        reg == kind \in {"REGempty", "REGextent", "REGbmap"}
    IN  [lc_newInode EXCEPT
            !.st_ino = DataIno,
            !.st_mode = [fmt |-> IF reg THEN S_IFREG ELSE IF kind = "DIR" THEN S_IFDIR ELSE S_IFLNK,
                         perm |-> 644],
            !.st_nlink = IF kind = "DIR" THEN 2 ELSE 1,
            !.st_blocks = IF live /\ kind \in {"REGextent", "REGbmap"} THEN 1 ELSE 0,
            !.st_size = IF live THEN 1 ELSE 0,
            !.i_fs = l,
            !.i_parent = IF reg THEN l ELSE SnapRootIno,
            !.i_block = 100 + id,
            !.i_extentBlock = IF live /\ kind = "REGextent" THEN 200 + id ELSE 0,
            !.i_extentLength = IF live /\ kind = "REGextent" THEN 1 ELSE 0,
            !.i_bmap = IF live /\ kind = "REGbmap" THEN id ELSE NULL,
            !.i_bcount = IF live /\ kind = "REGbmap" THEN 1 ELSE 0,
            !.i_dirent = IF live /\ kind = "DIR" THEN id ELSE NULL,
            !.i_target = IF kind = "LNK" THEN id ELSE NULL,
            !.i_removed = ~live,
            !.i_private = live /\ kind = "REGempty"]

DataId(p, l) == NLayers + Cardinality({k \in Ancestors : k <= l /\ p[k] # "absent"})
DataLayer(p, id) == CHOOSE l \in Ancestors : p[l] # "absent" /\ DataId(p, l) = id
HeapSize(p) == NLayers + Cardinality({k \in Ancestors : p[k] # "absent"})

InitHeap(kind, p) ==
    [id \in 1..HeapSize(p) |->
        IF id < NLayers THEN RootRec(id)
        ELSE IF id = NLayers THEN SnapRec
        ELSE DataRec(DataLayer(p, id), id, kind, p[DataLayer(p, id)])]

\* The chain of bucket b of layer l after the load: latest insert first.
RECURSIVE ChainOf(_, _, _, _)
ChainOf(heap, l, b, id) ==
    IF id = 0 THEN <<>>
    ELSE IF heap[id].i_fs = l /\ lc_inodeHash(heap[id].st_ino) = b
         THEN <<id>> \o ChainOf(heap, l, b, id - 1)
         ELSE ChainOf(heap, l, b, id - 1)

\* The inode blocks of layer l in the records id.. of the heap, in the order
\* they were written.
RECURSIVE BlocksOfLayer(_, _, _)
BlocksOfLayer(heap, l, id) ==
    IF id > Len(heap) THEN <<>>
    ELSE (IF heap[id].i_fs = l THEN <<heap[id].i_block>> ELSE <<>>)
         \o BlocksOfLayer(heap, l, id + 1)

NoCall ==
    [op |-> "none", fs |-> 0, ino |-> 0, handle |-> NULL, copy |-> FALSE,
     exclusive |-> FALSE, inode |-> NULL, pfs |-> NULL, parent |-> NULL,
     after |-> "none", absent |-> FALSE, conc |-> {}, cloned |-> FALSE,
     bucket |-> 0, count |-> 0, written |-> FALSE, page |-> NULL, ret |-> "none",
     owed |-> {}, handed |-> {}, rec |-> 0, slot |-> 0, flush |-> FALSE, tomb |-> {},
     due |-> {}, variants |-> {}, remove |-> FALSE, rcount |-> 0, before |-> <<>>,
     iblock |-> 0]

\* The layers in frozen are frozen.
LayerInit(frozen) ==
    /\ ic_lock = [l \in Layers |-> [b \in Buckets |-> NULL]]
    /\ fs_ilock = [l \in Layers |-> NULL]
    /\ fs_root = [l \in Layers |-> l]
    /\ fs_parent = [l \in Layers |-> l - 1]
    /\ fs_snap = [l \in Layers |-> IF l < NLayers THEN l + 1 ELSE NULL]
    /\ fs_frozen = [l \in Layers |-> l \in frozen]
    /\ fs_removed = [l \in Layers |-> FALSE]
    /\ pc = [t \in Threads |-> "idle"]
    /\ th = [t \in Threads |-> NoCall]

\* The state after mount with the data inode of the given kind and presence.
MountedAs(kind, p, frozen) ==
    /\ LayerInit(frozen)
    /\ inode = InitHeap(kind, p)
    /\ fs_icache = [l \in Layers |-> [b \in Buckets |->
                        ChainOf(InitHeap(kind, p), l, b, HeapSize(p))]]
    /\ fs_icount = [l \in Layers |->
                        Cardinality({id \in 1..HeapSize(p) : InitHeap(kind, p)[id].i_fs = l})]
    /\ gfs = [sb_inodes |-> HeapSize(p), sb_ninode |-> SnapRootIno, gfs_clones |-> 0,
              gfs_snap_root |-> SnapRootIno, gfs_snap_rootInode |-> NLayers]
    /\ fs_rootInode = [l \in Layers |-> IF l < NLayers THEN l ELSE NULL]
    /\ fs_inodePages = [l \in Layers |-> <<>>]
    /\ fs_inodePagesCount = [l \in Layers |-> 0]
    /\ fs_inodeBlocks = [l \in Layers |-> <<>>]
    /\ fs_inodeIndex = [l \in Layers |-> 0]
    /\ fs_blockInodes = [l \in Layers |-> 0]
    /\ fs_blockInodesCount = [l \in Layers |-> 0]
    /\ fs_iwrite = [l \in Layers |-> 0]
    /\ sb_inodeBlock = [l \in Layers |-> Pack(BlocksOfLayer(InitHeap(kind, p), l, 1))]
    /\ disk = [b \in {100 + id : id \in 1..HeapSize(p)} |->
                  PageData(InitHeap(kind, p)[b - 100])]
    /\ nextBlock = StartBlock

NotFrozen == {}
InitLayers == LayerInit(NotFrozen)
Mounted(kind, p) == MountedAs(kind, p, NotFrozen)

\* A layer is frozen when a child layer is made of it: the ancestors of the
\* leaf are frozen, or they are as they were before.
AncestorFrozen == Ancestors
InitLock ==
    \/ MountedAs("DIR", [l \in Ancestors |-> IF l = 1 THEN "live" ELSE "absent"], AncestorFrozen)
    \/ MountedAs("DIR", [l \in Ancestors |-> IF l = 1 THEN "live" ELSE "absent"], NotFrozen)

\* Every kind and presence (the kind only matters where the inode is live).
InitSeq ==
    \E kind \in Kinds, p \in Presence :
        /\ (\A l \in Ancestors : p[l] # "live") => kind = "REGempty"
        /\ Mounted(kind, p)

\* The data inode is live in the base layer and, in the layers between the
\* base and the leaf, everywhere absent, everywhere live or everywhere removed.
Init ==
    \E kind \in {"REGbmap"}, s \in {"absent", "live", "removed"} :
        Mounted(kind, [l \in Ancestors |-> IF l = 1 THEN "live" ELSE s])

\* ------------------------------------------------------- thread updates
SetTh(t, r) == th' = [th EXCEPT ![t] = r]
Goto(t, label) == pc' = [pc EXCEPT ![t] = label]

\* Threads whose running call may still allocate an inode record.
MayAlloc(u) ==
    \/ pc[u] \in {"gp_lock", "gp_recheck", "gp_walk", "cl_new"} /\ th[u].copy
    \/ pc[u] \in {"ii_alloc", "ii_new"}
Room == Len(inode) + Cardinality({u \in Threads : MayAlloc(u)}) < MaxInodes

InCall(u) == pc[u] \notin {"idle", "gi_done", "crashed"}

\* ------------------------------------------------------------- mutexes
\* A mutex that excludes nobody.
MutexFree_never_blocks(owner) == TRUE

\* pthread_mutex_lock returns once the mutex has no owner.
MutexFree(owner) == owner = NULL

\* A mutex left with its owner.
pthread_mutex_unlock_lost(owner) == owner

\* pthread_mutex_unlock: the mutex has no owner.
pthread_mutex_unlock(owner) == NULL

\* --------------------------------------------------------- lc_addInode
\* Lines 70-72: take the bucket mutex and link the record at the head.
lc_addInode_link(t) ==
    /\ pc[t] = "ai_link"
    /\ LET fs == th[t].fs
           hash == lc_inodeHash(inode[th[t].inode].st_ino)
       IN  /\ MutexFree(ic_lock[fs][hash])
           /\ ic_lock' = [ic_lock EXCEPT ![fs][hash] = t]
           /\ fs_icache' = [fs_icache EXCEPT ![fs][hash] = <<th[t].inode>> \o @]
    /\ Goto(t, "ai_unlock")
    /\ UNCHANGED <<flushVars, inode, fs_ilock, fs_root, fs_rootInode, fs_parent, fs_snap,
                   fs_frozen, fs_removed, fs_icount, gfs, th>>

\* Line 73: release the bucket mutex.
lc_addInode_unlock(t) ==
    /\ pc[t] = "ai_unlock"
    /\ ic_lock' = [ic_lock EXCEPT
                      ![th[t].fs][lc_inodeHash(inode[th[t].inode].st_ino)] =
                          pthread_mutex_unlock(@)]
    /\ Goto(t, "ai_setfs")
    /\ UNCHANGED <<flushVars, inode, fs_icache, fs_ilock, fs_root, fs_rootInode, fs_parent,
                   fs_snap, fs_frozen, fs_removed, fs_icount, gfs, th>>

\* Line 74: only now is the record's layer set.
lc_addInode_setfs(t) ==
    /\ pc[t] = "ai_setfs"
    /\ inode' = [inode EXCEPT ![th[t].inode].i_fs = th[t].fs]
    /\ Goto(t, th[t].after)
    /\ UNCHANGED <<flushVars, fs_icache, ic_lock, fs_ilock, fs_root, fs_rootInode, fs_parent,
                   fs_snap, fs_frozen, fs_removed, fs_icount, gfs, th>>

\* --------------------------------------------------------- lc_rootInit
\* Runs while the layer is being created, before any other thread can reach
\* it, so its lines are one step.  lc_markInodeDirty(inode, true, true, false,
\* false) marks the record and its directory dirty.
lc_rootInit(fs, root) ==
    /\ fs_rootInode[fs] = NULL
    /\ Len(inode) < MaxInodes
    /\ LET id == Len(inode) + 1
           rec == [lc_newInode EXCEPT
                     !.st_ino = root,
                     !.st_mode = [fmt |-> S_IFDIR, perm |-> 755],
                     !.st_nlink = 2, !.i_parent = root, !.i_fs = fs,
                     !.i_dirty = TRUE, !.i_dirdirty = TRUE]
       IN  /\ inode' = Append(inode, rec)
           /\ fs_icache' = [fs_icache EXCEPT ![fs][lc_inodeHash(root)] = <<id>> \o @]
           /\ fs_rootInode' = [fs_rootInode EXCEPT ![fs] = id]
    /\ gfs' = [gfs EXCEPT !.sb_inodes = @ + 1]
    /\ fs_icount' = [fs_icount EXCEPT ![fs] = @ + 1]
    /\ UNCHANGED <<flushVars, ic_lock, fs_ilock, fs_root, fs_parent, fs_snap, fs_frozen,
                   fs_removed, pc, th>>

\* --------------------------------------------------------- lc_getInode
\* Lines 529-554, up to the call of the parent walk: the handle, then the
\* lookup in the layer itself.  A handle is a record of that number obtained
\* through this layer earlier, so one of the layer or of an ancestor.
ChainLayers(fs) == {l \in Layers : l <= fs}
ArgInos(fs) ==
    IF fs = Leaf THEN {fs_root[fs]} \cup (DataIno..MaxIno) ELSE {DataIno}
Handles(fs, ino) ==
    {NULL} \cup {h \in 1..Len(inode) : /\ inode[h].st_ino = ino
                                       /\ inode[h].i_fs \in ChainLayers(fs)
                                       /\ h \in Resident(inode[h].i_fs)}

lc_getInode(t, fs, ino, handle, copy, exclusive) ==
    /\ pc[t] = "idle"
    /\ fs_rootInode[fs] # NULL
    /\ ~fs_removed[fs]
    /\ copy => (fs_snap[fs] = NULL /\ Room)
    /\ LET viaHandle == handle # NULL /\ (~copy \/ inode[handle].i_fs = fs)
           found == IF viaHandle THEN handle ELSE lc_lookupInode(fs, ino)
           others == {u \in Threads \ {t} : InCall(u) /\ th[u].op = "getInode"}
           call == [NoCall EXCEPT !.op = "getInode", !.fs = fs, !.ino = ino,
                                  !.handle = handle, !.copy = copy,
                                  !.exclusive = exclusive, !.inode = found,
                                  !.absent = lc_lookupInodeCache(fs, ino) = NULL,
                                  !.conc = others]
       IN  /\ th' = [u \in Threads |->
                        IF u = t THEN call
                        ELSE IF u \in others THEN [th[u] EXCEPT !.conc = @ \cup {t}]
                        ELSE th[u]]
           /\ Goto(t, IF found # NULL THEN "gi_lock"
                      ELSE IF fs_parent[fs] # NULL THEN "gp_lock"
                      ELSE "gi_done")
    /\ UNCHANGED <<flushVars, cacheVars>>

\* ---------------------------------------------------- lc_getInodeParent
\* Line 496.
lc_getInodeParent_lock(t) ==
    /\ pc[t] = "gp_lock"
    /\ MutexFree(fs_ilock[th[t].fs])
    /\ fs_ilock' = [fs_ilock EXCEPT ![th[t].fs] = t]
    /\ Goto(t, "gp_recheck")
    /\ UNCHANGED <<flushVars, inode, fs_icache, ic_lock, fs_root, fs_rootInode, fs_parent,
                   fs_snap, fs_frozen, fs_removed, fs_icount, gfs, th>>

\* The walk entered without looking at the layer's cache again.
Recheck_skipped(fs, inum) == NULL

\* Line 497: the lookup repeated under ilock.
Recheck(fs, inum) == lc_lookupInodeCache(fs, inum)

\* The walk started one layer too far.
FirstAncestor_skips_parent(fs) == IF fs_parent[fs] = NULL THEN NULL ELSE fs_parent[fs_parent[fs]]

\* Line 499: the walk starts at the parent.
FirstAncestor(fs) == fs_parent[fs]

\* The removed flag of the ancestor's record not looked at.
Usable_ignores_removed(parent) == TRUE

\* Line 505: a removed record of an ancestor is not used.
Usable(parent) == ~inode[parent].i_removed

lc_getInodeParent_recheck(t) ==
    /\ pc[t] = "gp_recheck"
    /\ LET found == Recheck(th[t].fs, th[t].ino)
       IN  /\ SetTh(t, [th[t] EXCEPT !.inode = found,
                                     !.pfs = IF found = NULL THEN FirstAncestor(th[t].fs)
                                             ELSE NULL])
           /\ Goto(t, IF found = NULL THEN "gp_walk" ELSE "gp_unlock")
    /\ UNCHANGED <<flushVars, cacheVars>>

\* Lines 500-519, one ancestor per step.
lc_getInodeParent_walk(t) ==
    /\ pc[t] = "gp_walk"
    /\ LET pfs == th[t].pfs
           parent == IF pfs = NULL THEN NULL ELSE lc_lookupInodeCache(pfs, th[t].ino)
       IN  IF pfs = NULL
           THEN /\ Goto(t, "gp_unlock")
                /\ UNCHANGED th
           ELSE IF parent = NULL
           THEN /\ SetTh(t, [th[t] EXCEPT !.pfs = fs_parent[pfs]])
                /\ UNCHANGED pc
           ELSE IF ~Usable(parent)
           THEN /\ Goto(t, "gp_unlock")
                /\ UNCHANGED th
           ELSE IF th[t].copy
           THEN /\ SetTh(t, [th[t] EXCEPT !.parent = parent])
                /\ Goto(t, "cl_new")
           ELSE /\ SetTh(t, [th[t] EXCEPT !.inode = parent])
                /\ Goto(t, "gp_unlock")
    /\ UNCHANGED <<flushVars, cacheVars>>

\* Line 521, and lines 556-563 of lc_getInode.
lc_getInodeParent_unlock(t) ==
    /\ pc[t] = "gp_unlock"
    /\ fs_ilock' = [fs_ilock EXCEPT ![th[t].fs] = pthread_mutex_unlock(@)]
    /\ Goto(t, IF th[t].inode # NULL THEN "gi_lock" ELSE "gi_done")
    /\ UNCHANGED <<flushVars, inode, fs_icache, ic_lock, fs_root, fs_rootInode, fs_parent,
                   fs_snap, fs_frozen, fs_removed, fs_icount, gfs, th>>

\* -------------------------------------------------------- lc_cloneInode
\* A clone that takes the parent's block map although it took its extent.
CloneRecord_extent_and_bmap(fs, parent) ==
    LET p == inode[parent]
        base == [lc_newInode EXCEPT
                    !.st_ino = p.st_ino, !.st_mode = p.st_mode,
                    !.st_nlink = p.st_nlink, !.st_blocks = p.st_blocks,
                    !.st_size = p.st_size, !.cloneOf = parent,
                    !.i_parent = p.i_parent]
    IN  IF p.st_blocks # 0
        THEN [base EXCEPT !.i_extentBlock = p.i_extentBlock,
                          !.i_extentLength = p.i_extentLength,
                          !.i_bmap = p.i_bmap, !.i_bcount = p.i_bcount,
                          !.i_bmapdirty = TRUE, !.i_shared = TRUE]
        ELSE [base EXCEPT !.i_private = TRUE]

\* Lines 449-482: the child record, not yet in the cache.  The ino argument
\* is not used: the number comes with the parent's stat block.
CloneRecord(fs, parent) ==
    LET p == inode[parent]
        base == [lc_newInode EXCEPT
                    !.st_ino = p.st_ino, !.st_mode = p.st_mode,
                    !.st_nlink = p.st_nlink, !.st_blocks = p.st_blocks,
                    !.st_size = p.st_size, !.cloneOf = parent,
                    !.i_parent = IF p.i_parent = fs_root[p.i_fs]
                                 THEN fs_root[fs] ELSE p.i_parent]
    IN  IF S_ISREG(p.st_mode)
        THEN IF p.st_blocks # 0
             THEN IF p.i_extentLength # 0
                  THEN [base EXCEPT !.i_extentBlock = p.i_extentBlock,
                                    !.i_extentLength = p.i_extentLength]
                  ELSE [base EXCEPT !.i_bmap = p.i_bmap, !.i_bcount = p.i_bcount,
                                    !.i_bmapdirty = TRUE, !.i_shared = TRUE]
             ELSE [base EXCEPT !.i_private = TRUE]
        ELSE IF S_ISDIR(p.st_mode)
        THEN IF p.i_dirent # NULL
             THEN [base EXCEPT !.i_dirent = p.i_dirent, !.i_shared = TRUE,
                               !.i_dirdirty = TRUE]
             ELSE base
        ELSE IF S_ISLNK(p.st_mode)
        THEN [base EXCEPT !.i_target = p.i_target, !.i_shared = TRUE]
        ELSE base

\* A clone that also marks the record it was made from as shared.
CloneHeap_marks_parent(fs, parent) ==
    Append([inode EXCEPT ![parent].i_shared = TRUE], CloneRecord(fs, parent))

\* The heap after lines 449-482.
CloneHeap(fs, parent) == Append(inode, CloneRecord(fs, parent))

lc_cloneInode_new(t) ==
    /\ pc[t] = "cl_new"
    /\ inode' = CloneHeap(th[t].fs, th[t].parent)
    /\ gfs' = [gfs EXCEPT !.sb_inodes = @ + 1]
    /\ fs_icount' = [fs_icount EXCEPT ![th[t].fs] = @ + 1]
    /\ SetTh(t, [th[t] EXCEPT !.inode = Len(inode) + 1, !.after = "cl_dirty",
                              !.cloned = TRUE])
    /\ Goto(t, "ai_link")
    /\ UNCHANGED <<flushVars, fs_icache, ic_lock, fs_ilock, fs_root, fs_rootInode, fs_parent,
                   fs_snap, fs_frozen, fs_removed>>

\* Line 484.
lc_cloneInode_dirty(t) ==
    /\ pc[t] = "cl_dirty"
    /\ inode' = [inode EXCEPT ![th[t].inode].i_dirty = TRUE]
    /\ Goto(t, "cl_count")
    /\ UNCHANGED <<flushVars, fs_icache, ic_lock, fs_ilock, fs_root, fs_rootInode, fs_parent,
                   fs_snap, fs_frozen, fs_removed, fs_icount, gfs, th>>

\* Line 485, and the return to the walk (line 510).
lc_cloneInode_count(t) ==
    /\ pc[t] = "cl_count"
    /\ gfs' = [gfs EXCEPT !.gfs_clones = @ + 1]
    /\ Goto(t, "gp_unlock")
    /\ UNCHANGED <<flushVars, inode, fs_icache, ic_lock, fs_ilock, fs_root, fs_rootInode,
                   fs_parent, fs_snap, fs_frozen, fs_removed, fs_icount, th>>

\* --------------------------------------------- lc_inodeLock, lc_inodeUnlock
\* A rwlock that is granted at once.
CanLock_at_once(rw, exclusive) == TRUE

\* pthread_rwlock_wrlock returns once nobody holds the lock,
\* pthread_rwlock_rdlock once no writer holds it.
CanLock(rw, exclusive) == IF exclusive THEN rw = NoLock ELSE rw.w = NULL
Locked(rw, t, exclusive) ==
    IF exclusive THEN [rw EXCEPT !.w = t] ELSE [rw EXCEPT !.r = @ \cup {t}]
Unlocked(rw, t) == [w |-> IF rw.w = t THEN NULL ELSE rw.w, r |-> rw.r \ {t}]

\* lc_inodeLock as lc_getInode and lc_inodeInit call it.  A record whose i_fs
\* is still NULL makes inode->i_fs->fs_frozen a null dereference: the thread
\* is lost.
lc_inodeLock(t) ==
    /\ pc[t] = "gi_lock"
    /\ LET i == th[t].inode
           nofs == inode[i].i_fs = NULL
           skip == IF nofs THEN TRUE ELSE fs_frozen[inode[i].i_fs]
       IN  /\ ~skip => CanLock(inode[i].i_rwlock, th[t].exclusive)
           /\ inode' = IF skip THEN inode
                       ELSE [inode EXCEPT ![i].i_rwlock = Locked(@, t, th[t].exclusive)]
           /\ Goto(t, IF nofs THEN "crashed" ELSE "gi_done")
    /\ UNCHANGED <<flushVars, fs_icache, ic_lock, fs_ilock, fs_root, fs_rootInode, fs_parent,
                   fs_snap, fs_frozen, fs_removed, fs_icount, gfs, th>>

\* The caller is done with the inode it got: lc_inodeUnlock, or nothing to
\* unlock when the call returned NULL.
lc_inodeUnlock(t) ==
    /\ pc[t] = "gi_done"
    /\ LET i == th[t].inode
       IN  inode' = IF i = NULL THEN inode
                    ELSE IF fs_frozen[inode[i].i_fs] THEN inode
                    ELSE [inode EXCEPT ![i].i_rwlock = Unlocked(@, t)]
    /\ Goto(t, "idle")
    /\ SetTh(t, NoCall)
    /\ UNCHANGED <<flushVars, fs_icache, ic_lock, fs_ilock, fs_root, fs_rootInode, fs_parent,
                   fs_snap, fs_frozen, fs_removed, fs_icount, gfs>>

\* The inodes thread t holds locked.
HeldBy(t) == {i \in 1..Len(inode) : inode[i].i_rwlock.w = t \/ t \in inode[i].i_rwlock.r}

\* The caller goes on with the inode it got locked, to get another inode.
KeepInode(t) ==
    /\ pc[t] = "gi_done"
    /\ th[t].inode \in HeldBy(t)
    /\ Goto(t, "idle")
    /\ SetTh(t, NoCall)
    /\ UNCHANGED <<cacheVars, flushVars>>

\* lc_inodeUnlock of an inode the caller kept locked.
lc_inodeUnlock_kept(t, i) ==
    /\ pc[t] = "idle"
    /\ i \in HeldBy(t)
    /\ ~fs_frozen[inode[i].i_fs]
    /\ inode' = [inode EXCEPT ![i].i_rwlock = Unlocked(@, t)]
    /\ UNCHANGED <<flushVars, fs_icache, ic_lock, fs_ilock, fs_root, fs_rootInode, fs_parent,
                   fs_snap, fs_frozen, fs_removed, fs_icount, gfs, pc, th>>

\* --------------------------------------------- lc_inodeAlloc, lc_inodeInit
\* An increment that is lost.
AddAndFetch_lost(n) == n

\* Line 569: __sync_add_and_fetch(&sb_ninode, 1) adds one and returns the
\* new value in one atomic step.
AddAndFetch(n) == n + 1

\* Line 580: the atomic increment of the next-inode counter, called while
\* the counter is below last.
lc_inodeAllocBelow(t, fs, mode, last) ==
    /\ pc[t] = "idle"
    /\ fs_rootInode[fs] # NULL
    /\ fs_snap[fs] = NULL
    /\ ~fs_removed[fs]
    /\ Room
    /\ gfs.sb_ninode < last
    /\ gfs' = [gfs EXCEPT !.sb_ninode = AddAndFetch(@)]
    /\ SetTh(t, [NoCall EXCEPT !.op = "inodeInit", !.fs = fs,
                               !.ino = AddAndFetch(gfs.sb_ninode),
                               !.handle = mode, !.exclusive = TRUE])
    /\ Goto(t, "ii_new")
    /\ UNCHANGED <<flushVars, inode, fs_icache, ic_lock, fs_ilock, fs_root, fs_rootInode,
                   fs_parent, fs_snap, fs_frozen, fs_removed, fs_icount>>

lc_inodeAlloc(t, fs, mode) == lc_inodeAllocBelow(t, fs, mode, MaxIno)

\* Lines 581-598.
InitRecord(fs, ino, fmt, id) ==
    [lc_newInode EXCEPT
        !.st_ino = ino, !.st_mode = [fmt |-> fmt, perm |-> 644],
        !.st_nlink = IF fmt = S_IFDIR THEN 2 ELSE 1,
        !.i_parent = fs_root[fs],
        !.i_private = fmt = S_IFREG,
        !.i_target = IF fmt = S_IFLNK THEN id ELSE NULL,
        !.st_size = IF fmt = S_IFLNK THEN 1 ELSE 0]

lc_inodeInit_new(t) ==
    /\ pc[t] = "ii_new"
    /\ inode' = Append(inode, InitRecord(th[t].fs, th[t].ino, th[t].handle, Len(inode) + 1))
    /\ gfs' = [gfs EXCEPT !.sb_inodes = @ + 1]
    /\ fs_icount' = [fs_icount EXCEPT ![th[t].fs] = @ + 1]
    /\ SetTh(t, [th[t] EXCEPT !.inode = Len(inode) + 1, !.after = "gi_lock",
                              !.handle = NULL])
    /\ Goto(t, "ai_link")
    /\ UNCHANGED <<flushVars, fs_icache, ic_lock, fs_ilock, fs_root, fs_rootInode, fs_parent,
                   fs_snap, fs_frozen, fs_removed>>

\* ------------------------------------------------------ file operations
\* The file-operations layer unlinks an object of a writable layer under the
\* exclusive inode lock: the record stays in the cache, marked removed and
\* dirty, with its blocks released.
RemoveInode(t) ==
    /\ pc[t] = "gi_done"
    /\ th[t].inode # NULL
    /\ LET i == th[t].inode
       IN  /\ inode[i].i_rwlock.w = t
           /\ inode[i].i_fs = th[t].fs
           /\ fs_snap[th[t].fs] = NULL
           /\ ~inode[i].i_removed
           /\ inode[i].st_ino \notin {fs_root[th[t].fs], gfs.gfs_snap_root}
           /\ inode' = [inode EXCEPT ![i].i_removed = TRUE, ![i].i_dirty = TRUE,
                                     ![i].st_blocks = 0, ![i].st_size = 0,
                                     ![i].i_extentBlock = 0, ![i].i_extentLength = 0,
                                     ![i].i_bmap = NULL, ![i].i_bcount = 0,
                                     ![i].i_dirent = NULL, ![i].i_shared = FALSE]
    /\ UNCHANGED <<flushVars, fs_icache, ic_lock, fs_ilock, fs_root, fs_rootInode, fs_parent,
                   fs_snap, fs_frozen, fs_removed, fs_icount, gfs, pc, th>>

\* ============================================================== flusher
layerVars == <<fs_icache, ic_lock, fs_ilock, fs_root, fs_rootInode, fs_parent,
               fs_snap, fs_frozen, fs_removed, fs_icount, gfs>>
stageVars == <<fs_inodePages, fs_inodePagesCount, disk>>
allocVars == <<fs_inodeBlocks, fs_inodeIndex, fs_blockInodes, fs_blockInodesCount,
               nextBlock>>

\* lc_inodeDirty: some dirty flag of the inode is set.
lc_inodeDirty(i) ==
    inode[i].i_dirty \/ inode[i].i_dirdirty \/ inode[i].i_bmapdirty \/ inode[i].i_xattrdirty

\* inode->i_cnext: the record after i in its bucket chain.
i_cnext(fs, i) ==
    LET chain == fs_icache[fs][lc_inodeHash(inode[i].st_ino)]
        at == {k \in 1..Len(chain) : chain[k] = i}
    IN  IF at = {} THEN NULL
        ELSE IF Min(at) = Len(chain) THEN NULL ELSE chain[Min(at) + 1]

\* Lines 353-362: the page for the inode's block, with the dinode copied in,
\* the mode zeroed for a removed inode and the target appended for a symlink.
NewPage(rec) == [p_block |-> rec.i_block, p_data |-> PageData(rec), p_dvalid |-> 1]

\* A page that may follow whatever is staged.
Contiguous_anything(page, head) == TRUE

\* Line 363-364: the page's block is the successor of the staged head's.
Contiguous(page, head) == page.p_block = head.p_block + 1

\* A staging list flushed one page late.
ClusterFull_late(count) == count > LC_CLUSTER_SIZE

\* Line 370.
ClusterFull(count) == count >= LC_CLUSTER_SIZE

\* lc_flushPageCluster: the first count pages of the list go to disk.
lc_flushPageCluster(d, pages, count) ==
    LET n == Min({count, Len(pages)})
        blks == {pages[k].p_block : k \in 1..n}
    IN  [b \in DOMAIN d \cup blks |->
            IF b \in blks
            THEN pages[Min({k \in 1..n : pages[k].p_block = b})].p_data
            ELSE d[b]]

BlocksOf(pages) == {pages[k].p_block : k \in 1..Len(pages)}

\* lc_flushInodePages, lines 288-294, as part of the step that calls it.
lc_flushInodePages(fs) ==
    /\ disk' = lc_flushPageCluster(disk, fs_inodePages[fs], fs_inodePagesCount[fs])
    /\ fs_inodePages' = [fs_inodePages EXCEPT ![fs] = <<>>]
    /\ fs_inodePagesCount' = [fs_inodePagesCount EXCEPT ![fs] = 0]

\* lc_invalidateInodePages, lines 275-285: the staged pages are released
\* without being written.
lc_invalidateInodePages(t, fs) ==
    /\ pc[t] = "idle"
    /\ fs_rootInode[fs] # NULL
    /\ IF fs_inodePagesCount[fs] # 0
       THEN /\ fs_inodePages' = [fs_inodePages EXCEPT ![fs] = <<>>]
            /\ fs_inodePagesCount' = [fs_inodePagesCount EXCEPT ![fs] = 0]
       ELSE UNCHANGED <<fs_inodePages, fs_inodePagesCount>>
    /\ UNCHANGED <<cacheVars, allocVars, fs_iwrite, sb_inodeBlock, disk, pc, th>>

\* -------------------------------------------------------- lc_flushInode
\* The variants of an inode that are dirty.
DueOf(rec) ==
    {v \in {"xattr", "bmap", "dir"} :
        \/ v = "xattr" /\ rec.i_xattrdirty
        \/ v = "bmap" /\ rec.i_bmapdirty
        \/ v = "dir" /\ rec.i_dirdirty}

\* Variants flushed only with a dirty inode.
FlushesVariant_when_dirty(rec, v) == rec.i_dirty /\ v \in DueOf(rec)

\* Lines 303, 307 and 311: a variant is flushed when its flag is set.
FlushesVariant(rec, v) == v \in DueOf(rec)

\* A caller that holds the inode exclusively flushes it.
lc_flushInode_call(t) ==
    /\ pc[t] = "gi_done"
    /\ th[t].inode # NULL
    /\ inode[th[t].inode].i_rwlock.w = t
    /\ inode[th[t].inode].i_fs = th[t].fs
    /\ lc_inodeDirty(th[t].inode)
    /\ SetTh(t, [th[t] EXCEPT !.written = FALSE, !.ret = "gi_done",
                              !.due = DueOf(inode[th[t].inode]), !.variants = {}])
    /\ Goto(t, "fl_xattr")
    /\ UNCHANGED <<cacheVars, flushVars>>

\* Lines 300-304.  The external flusher of a variant writes the variant's
\* blocks and clears its flag.
lc_flushInode_xattr(t) ==
    /\ pc[t] = "fl_xattr"
    /\ LET i == th[t].inode
           call == FlushesVariant(inode[i], "xattr")
       IN  IF inode[i].i_fs # th[t].fs
           THEN /\ Goto(t, "crashed")
                /\ UNCHANGED <<inode, th>>
           ELSE /\ inode' = IF call THEN [inode EXCEPT ![i].i_xattrdirty = FALSE] ELSE inode
                /\ SetTh(t, IF call THEN [th[t] EXCEPT !.variants = @ \cup {"xattr"}]
                            ELSE th[t])
                /\ Goto(t, "fl_bmap")
    /\ UNCHANGED <<layerVars, flushVars>>

\* Lines 306-308.
lc_flushInode_bmap(t) ==
    /\ pc[t] = "fl_bmap"
    /\ LET i == th[t].inode
           call == FlushesVariant(inode[i], "bmap")
       IN  /\ inode' = IF call THEN [inode EXCEPT ![i].i_bmapdirty = FALSE] ELSE inode
           /\ SetTh(t, IF call THEN [th[t] EXCEPT !.variants = @ \cup {"bmap"}] ELSE th[t])
    /\ Goto(t, "fl_dir")
    /\ UNCHANGED <<layerVars, flushVars>>

\* Lines 310-312.
lc_flushInode_dir(t) ==
    /\ pc[t] = "fl_dir"
    /\ LET i == th[t].inode
           call == FlushesVariant(inode[i], "dir")
       IN  /\ inode' = IF call THEN [inode EXCEPT ![i].i_dirdirty = FALSE] ELSE inode
           /\ SetTh(t, IF call THEN [th[t] EXCEPT !.variants = @ \cup {"dir"}] ELSE th[t])
    /\ Goto(t, "fl_dirty")
    /\ UNCHANGED <<layerVars, flushVars>>

\* Lines 315-329: nothing to write unless the inode itself is dirty; a
\* removed inode has no extent (line 317) and gives up its metadata blocks.
lc_flushInode_dirty(t) ==
    /\ pc[t] = "fl_dirty"
    /\ LET i == th[t].inode
       IN  Goto(t, IF ~inode[i].i_dirty THEN th[t].ret
                   ELSE IF inode[i].i_removed /\ inode[i].i_extentLength # 0
                        THEN "crashed"
                   ELSE "fl_block")
    /\ SetTh(t, IF ~inode[th[t].inode].i_dirty
                THEN [th[t] EXCEPT !.due = {}, !.variants = {}] ELSE th[t])
    /\ UNCHANGED <<cacheVars, flushVars>>

\* Every dirty inode is written.
NeedsWrite_always(rec) == TRUE

\* Line 334: a removed inode that never had a disk copy is not written.
NeedsWrite(rec) == ~rec.i_removed \/ rec.i_block # LC_INVALID_BLOCK

\* A record taken as full one slot late.
RecordFull_late(index) == index > LC_IBLOCK_MAX

\* Line 337: the current inode-block record has no slot left.
RecordFull(index) == index >= LC_IBLOCK_MAX

\* Lines 334-351: an inode without a block gets the next block of the
\* reserved run, recorded in the next slot of the current inode-block record.
lc_flushInode_block(t) ==
    /\ pc[t] = "fl_block"
    /\ LET i == th[t].inode
           fs == th[t].fs
           need == NeedsWrite(inode[i]) /\ inode[i].i_block = LC_INVALID_BLOCK
           newrec == need /\ (fs_inodeBlocks[fs] = <<>> \/ RecordFull(fs_inodeIndex[fs]))
           chain == IF newrec THEN lc_newInodeBlock(fs_inodeBlocks[fs]) ELSE fs_inodeBlocks[fs]
           index == IF newrec THEN 0 ELSE fs_inodeIndex[fs]
           reserve == need /\ fs_blockInodesCount[fs] = 0
       IN  \E start \in lc_blockAllocExact(reserve) :
              LET run == IF reserve THEN start ELSE fs_blockInodes[fs]
                  left == IF reserve THEN LC_INODE_CLUSTER_SIZE ELSE fs_blockInodesCount[fs]
              IN  /\ inode' = IF need THEN [inode EXCEPT ![i].i_block = run] ELSE inode
                  /\ fs_blockInodes' = IF need THEN [fs_blockInodes EXCEPT ![fs] = run + 1]
                                       ELSE fs_blockInodes
                  /\ fs_blockInodesCount' =
                        IF need THEN [fs_blockInodesCount EXCEPT ![fs] = left - 1]
                        ELSE fs_blockInodesCount
                  /\ fs_inodeBlocks' =
                        IF need
                        THEN [fs_inodeBlocks EXCEPT
                                 ![fs] = <<Append(Head(chain), run)>> \o Tail(chain)]
                        ELSE fs_inodeBlocks
                  /\ fs_inodeIndex' = IF need THEN [fs_inodeIndex EXCEPT ![fs] = index + 1]
                                      ELSE fs_inodeIndex
                  /\ nextBlock' = IF reserve THEN start + LC_INODE_CLUSTER_SIZE ELSE nextBlock
           /\ SetTh(t, [th[t] EXCEPT !.written = NeedsWrite(inode[i])])
           /\ Goto(t, IF NeedsWrite(inode[i]) THEN "fl_page" ELSE "fl_clear")
    /\ UNCHANGED <<layerVars, stageVars, fs_iwrite, sb_inodeBlock>>

\* Lines 334-346 as they run when other threads flush inodes of the layer:
\* nothing orders the accesses to the layer's fields, so the value of
\* fs_blockInodes read at line 346 is kept by the thread until it is used.
lc_flushInode_load(t) ==
    /\ pc[t] = "fl_block"
    /\ LET i == th[t].inode
           fs == th[t].fs
           need == NeedsWrite(inode[i]) /\ inode[i].i_block = LC_INVALID_BLOCK
           newrec == need /\ (fs_inodeBlocks[fs] = <<>> \/ RecordFull(fs_inodeIndex[fs]))
           reserve == need /\ fs_blockInodesCount[fs] = 0
       IN  \E start \in lc_blockAllocExact(reserve) :
              LET run == IF reserve THEN start ELSE fs_blockInodes[fs]
              IN  /\ fs_inodeBlocks' =
                        IF newrec
                        THEN [fs_inodeBlocks EXCEPT ![fs] = lc_newInodeBlock(@)]
                        ELSE fs_inodeBlocks
                  /\ fs_inodeIndex' = IF newrec THEN [fs_inodeIndex EXCEPT ![fs] = 0]
                                      ELSE fs_inodeIndex
                  /\ fs_blockInodes' = IF reserve THEN [fs_blockInodes EXCEPT ![fs] = start]
                                       ELSE fs_blockInodes
                  /\ fs_blockInodesCount' =
                        IF reserve
                        THEN [fs_blockInodesCount EXCEPT ![fs] = LC_INODE_CLUSTER_SIZE]
                        ELSE fs_blockInodesCount
                  /\ nextBlock' = IF reserve THEN start + LC_INODE_CLUSTER_SIZE ELSE nextBlock
                  /\ SetTh(t, [th[t] EXCEPT !.written = NeedsWrite(inode[i]),
                                            !.iblock = IF need THEN run ELSE 0])
                  /\ Goto(t, IF need THEN "fl_assign"
                             ELSE IF NeedsWrite(inode[i]) THEN "fl_page" ELSE "fl_clear")
    /\ UNCHANGED <<cacheVars, stageVars, fs_iwrite, sb_inodeBlock>>

\* Lines 346-348: the block read goes to the inode and, plus one, back to
\* fs_blockInodes; the count goes down and the block goes to the slot at
\* fs_inodeIndex of the current record.  A record that is gone or has no
\* such slot makes the store of line 348 a wild one: the thread is lost.
lc_flushInode_store(t) ==
    /\ pc[t] = "fl_assign"
    /\ LET i == th[t].inode
           fs == th[t].fs
           at == fs_inodeIndex[fs] + 1
           wild == IF fs_inodeBlocks[fs] = <<>> THEN TRUE
                   ELSE at > LC_IBLOCK_MAX \/ at > Len(Head(fs_inodeBlocks[fs])) + 1
       IN  IF wild
           THEN /\ Goto(t, "crashed")
                /\ UNCHANGED <<inode, fs_blockInodes, fs_blockInodesCount, fs_inodeBlocks,
                               fs_inodeIndex>>
           ELSE /\ inode' = [inode EXCEPT ![i].i_block = th[t].iblock]
                /\ fs_blockInodes' = [fs_blockInodes EXCEPT ![fs] = th[t].iblock + 1]
                /\ fs_blockInodesCount' = [fs_blockInodesCount EXCEPT ![fs] = @ - 1]
                /\ fs_inodeBlocks' =
                      [fs_inodeBlocks EXCEPT
                          ![fs] = <<[k \in 1..Max({at, Len(Head(@))}) |->
                                        IF k = at THEN th[t].iblock ELSE Head(@)[k]]>>
                                  \o Tail(@)]
                /\ fs_inodeIndex' = [fs_inodeIndex EXCEPT ![fs] = at]
                /\ Goto(t, "fl_page")
    /\ UNCHANGED <<layerVars, stageVars, fs_iwrite, sb_inodeBlock, nextBlock, th>>

\* Lines 353-362.
lc_flushInode_page(t) ==
    /\ pc[t] = "fl_page"
    /\ SetTh(t, [th[t] EXCEPT !.page = NewPage(inode[th[t].inode])])
    /\ Goto(t, "fl_cluster")
    /\ UNCHANGED <<cacheVars, flushVars>>

\* Lines 363-366: what is staged is flushed first unless the page follows it.
lc_flushInode_cluster(t) ==
    /\ pc[t] = "fl_cluster"
    /\ LET fs == th[t].fs
           flush == IF fs_inodePages[fs] = <<>> THEN FALSE
                    ELSE ~Contiguous(th[t].page, Head(fs_inodePages[fs]))
       IN  IF flush
           THEN /\ lc_flushInodePages(fs)
                /\ SetTh(t, [th[t] EXCEPT !.handed = @ \cup BlocksOf(fs_inodePages[fs])])
           ELSE UNCHANGED <<stageVars, th>>
    /\ Goto(t, "fl_stage")
    /\ UNCHANGED <<cacheVars, allocVars, fs_iwrite, sb_inodeBlock>>

\* Lines 367-369: the page goes to the head of the staging list.
lc_flushInode_stage(t) ==
    /\ pc[t] = "fl_stage"
    /\ fs_inodePages' = [fs_inodePages EXCEPT ![th[t].fs] = <<th[t].page>> \o @]
    /\ fs_inodePagesCount' = [fs_inodePagesCount EXCEPT ![th[t].fs] = @ + 1]
    /\ Goto(t, "fl_full")
    /\ UNCHANGED <<cacheVars, allocVars, fs_iwrite, sb_inodeBlock, disk, th>>

\* Lines 370-372.
lc_flushInode_full(t) ==
    /\ pc[t] = "fl_full"
    /\ LET fs == th[t].fs
       IN  IF ClusterFull(fs_inodePagesCount[fs])
           THEN /\ lc_flushInodePages(fs)
                /\ SetTh(t, [th[t] EXCEPT !.handed = @ \cup BlocksOf(fs_inodePages[fs])])
           ELSE UNCHANGED <<stageVars, th>>
    /\ Goto(t, "fl_clear")
    /\ UNCHANGED <<cacheVars, allocVars, fs_iwrite, sb_inodeBlock>>

\* Lines 374-376.
lc_flushInode_clear(t) ==
    /\ pc[t] = "fl_clear"
    /\ inode' = [inode EXCEPT ![th[t].inode].i_dirty = FALSE]
    /\ Goto(t, th[t].ret)
    /\ SetTh(t, [th[t] EXCEPT !.due = {}, !.variants = {}])
    /\ UNCHANGED <<layerVars, flushVars>>

\* -------------------------------------------------------- lc_syncInodes
\* The inodes of the layer that are dirty and have or get a disk copy.
Owed(fs) == {i \in Resident(fs) : inode[i].i_dirty /\ NeedsWrite(inode[i])}

lc_syncInodes(t, fs) ==
    /\ pc[t] = "idle"
    /\ fs_rootInode[fs] # NULL
    /\ fs_iwrite[fs] < MaxWrites
    /\ SetTh(t, [NoCall EXCEPT !.op = "syncInodes", !.fs = fs, !.owed = Owed(fs)])
    /\ Goto(t, "sy_bucket")
    /\ UNCHANGED <<cacheVars, flushVars>>

\* Lines 386-387.
lc_syncInodes_bucket(t) ==
    /\ pc[t] = "sy_bucket"
    /\ IF th[t].bucket < LC_ICACHE_SIZE
       THEN /\ SetTh(t, [th[t] EXCEPT !.inode =
                            IF fs_icache[th[t].fs][th[t].bucket] = <<>> THEN NULL
                            ELSE Head(fs_icache[th[t].fs][th[t].bucket])])
            /\ Goto(t, "sy_loop")
       ELSE /\ Goto(t, "sy_pages")
            /\ UNCHANGED th
    /\ UNCHANGED <<cacheVars, flushVars>>

\* A walk that goes on in a layer marked removed.
WalkOn_in_removed_layer(fs, i) == i # NULL

\* Line 389: the walk of a bucket goes on while there is a record and the
\* layer is not marked removed.
WalkOn(fs, i) == i # NULL /\ ~fs_removed[fs]

\* Lines 388-391.
lc_syncInodes_loop(t) ==
    /\ pc[t] = "sy_loop"
    /\ IF WalkOn(th[t].fs, th[t].inode)
       THEN /\ SetTh(t, [th[t] EXCEPT !.written = FALSE, !.ret = "sy_next",
                                       !.due = IF lc_inodeDirty(th[t].inode)
                                               THEN DueOf(inode[th[t].inode]) ELSE {}])
            /\ Goto(t, IF lc_inodeDirty(th[t].inode) THEN "fl_xattr" ELSE "sy_next")
       ELSE /\ SetTh(t, [th[t] EXCEPT !.bucket = @ + 1])
            /\ Goto(t, "sy_bucket")
    /\ UNCHANGED <<cacheVars, flushVars>>

\* Lines 390 and 392.
lc_syncInodes_next(t) ==
    /\ pc[t] = "sy_next"
    /\ SetTh(t, [th[t] EXCEPT !.count = @ + (IF th[t].written THEN 1 ELSE 0),
                              !.written = FALSE,
                              !.inode = i_cnext(th[t].fs, th[t].inode)])
    /\ Goto(t, "sy_loop")
    /\ UNCHANGED <<cacheVars, flushVars>>

\* No residual flush.
ResidualFlush_never(fs) == FALSE

\* Line 397.
ResidualFlush(fs) == fs_inodePagesCount[fs] # 0 /\ ~fs_removed[fs]

\* Lines 397-399.
lc_syncInodes_pages(t) ==
    /\ pc[t] = "sy_pages"
    /\ LET fs == th[t].fs
       IN  IF ResidualFlush(fs)
           THEN /\ lc_flushInodePages(fs)
                /\ SetTh(t, [th[t] EXCEPT !.handed = @ \cup BlocksOf(fs_inodePages[fs])])
           ELSE UNCHANGED <<stageVars, th>>
    /\ Goto(t, "sy_blocks")
    /\ UNCHANGED <<cacheVars, allocVars, fs_iwrite, sb_inodeBlock>>

\* Lines 400-402.  lc_flushInodeBlocks writes the open inode-block records
\* and makes them the layer's chain.
lc_syncInodes_blocks(t) ==
    /\ pc[t] = "sy_blocks"
    /\ LET fs == th[t].fs
       IN  IF ~fs_removed[fs]
           THEN /\ sb_inodeBlock' = [sb_inodeBlock EXCEPT
                                        ![fs] = lc_flushInodeBlocks(@, fs_inodeBlocks[fs])]
                /\ fs_inodeBlocks' = [fs_inodeBlocks EXCEPT ![fs] = <<>>]
                /\ fs_inodeIndex' = [fs_inodeIndex EXCEPT ![fs] = 0]
           ELSE UNCHANGED <<sb_inodeBlock, fs_inodeBlocks, fs_inodeIndex>>
    /\ Goto(t, "sy_count")
    /\ UNCHANGED <<cacheVars, stageVars, fs_blockInodes, fs_blockInodesCount,
                   nextBlock, fs_iwrite, th>>

\* Lines 403-405.
lc_syncInodes_count(t) ==
    /\ pc[t] = "sy_count"
    /\ fs_iwrite' = [fs_iwrite EXCEPT ![th[t].fs] = @ + th[t].count]
    /\ Goto(t, "sy_done")
    /\ UNCHANGED <<cacheVars, stageVars, allocVars, sb_inodeBlock, th>>

lc_syncInodes_return(t) ==
    /\ pc[t] = "sy_done"
    /\ SetTh(t, NoCall)
    /\ Goto(t, "idle")
    /\ UNCHANGED <<cacheVars, flushVars>>

\* ------------------------------------------------------ file operations
\* lc_markInodeDirty under the exclusive inode lock: the inode, and with it
\* its block map, its directory or its extended attributes, or the extended
\* attributes alone.
lc_markInodeDirty(t, what) ==
    /\ pc[t] = "gi_done"
    /\ th[t].inode # NULL
    /\ LET i == th[t].inode
       IN  /\ inode[i].i_rwlock.w = t
           /\ inode[i].i_fs = th[t].fs
           /\ fs_snap[th[t].fs] = NULL
           /\ ~inode[i].i_removed
           /\ what = "bmap" => S_ISREG(inode[i].st_mode)
           /\ what = "dir" => S_ISDIR(inode[i].st_mode)
           /\ inode' = [inode EXCEPT
                           ![i].i_dirty = @ \/ what # "xattr_only",
                           ![i].i_bmapdirty = @ \/ what = "bmap",
                           ![i].i_dirdirty = @ \/ what = "dir",
                           ![i].i_xattrdirty = @ \/ what \in {"xattr", "xattr_only"}]
           /\ inode' # inode
    /\ UNCHANGED <<layerVars, flushVars, pc, th>>

\* The layer is deleted: from now on it is marked removed.
MarkLayerRemoved(fs) ==
    /\ fs_rootInode[fs] # NULL
    /\ fs_snap[fs] = NULL
    /\ ~fs_removed[fs]
    /\ fs_removed' = [fs_removed EXCEPT ![fs] = TRUE]
    /\ UNCHANGED <<inode, fs_icache, ic_lock, fs_ilock, fs_root, fs_rootInode,
                   fs_parent, fs_snap, fs_frozen, fs_icount, gfs, flushVars, pc, th>>

\* ------------------------------------------------------ lc_destroyInodes
\* Lines 408-442, called with the layer locked for exclusive access: every
\* record of every bucket is freed, the records not removed are counted in
\* rcount and all of them in icount.
\* Lines 247-272: the memory of a freed record holds nothing of the inode.
lc_freeInode(rec) == [lc_newInode EXCEPT !.st_mode = NoMode]

\* Lines 432-435: what the superblock's inode count is decreased by.
SuperblockDrop_all_records(remove, icount, rcount) == IF remove THEN icount ELSE 0

SuperblockDrop(remove, icount, rcount) == IF remove /\ icount # 0 THEN rcount ELSE 0

\* The call, with the counts of line 411 at zero.
lc_destroyInodes(t, fs, remove) ==
    /\ \A u \in Threads : pc[u] = "idle"
    /\ Resident(fs) # {}
    /\ Len(inode) + Cardinality(ChainBlocks(sb_inodeBlock[fs])) <= MaxHeap
    /\ SetTh(t, [NoCall EXCEPT
                    !.op = "destroyInodes", !.fs = fs, !.remove = remove,
                    !.before = [sb_inodes |-> gfs.sb_inodes, fs_icount |-> fs_icount[fs],
                                resident |-> Cardinality(Resident(fs)),
                                live |-> Cardinality({i \in Resident(fs) :
                                                         ~inode[i].i_removed})]])
    /\ Goto(t, "di_bucket")
    /\ UNCHANGED <<cacheVars, flushVars>>

\* Lines 416-430: the records of one bucket are unlinked, counted and freed.
lc_destroyInodes_bucket(t) ==
    /\ pc[t] = "di_bucket"
    /\ LET fs == th[t].fs
           b == th[t].bucket
       IN  IF b < LC_ICACHE_SIZE
           THEN LET chain == fs_icache[fs][b]
                    ids == {chain[k] : k \in 1..Len(chain)}
                IN  /\ fs_icache' = [fs_icache EXCEPT ![fs][b] = <<>>]
                    /\ inode' = [i \in DOMAIN inode |->
                                    IF i \in ids THEN lc_freeInode(inode[i]) ELSE inode[i]]
                    /\ SetTh(t, [th[t] EXCEPT
                                    !.bucket = b + 1,
                                    !.count = @ + Cardinality(ids),
                                    !.rcount = @ + Cardinality({i \in ids :
                                                                  ~inode[i].i_removed})])
                    /\ UNCHANGED pc
           ELSE /\ Goto(t, "di_count")
                /\ UNCHANGED <<inode, fs_icache, th>>
    /\ UNCHANGED <<flushVars, ic_lock, fs_ilock, fs_root, fs_rootInode, fs_parent,
                   fs_snap, fs_frozen, fs_removed, fs_icount, gfs>>

\* Lines 431-441: the counts leave the superblock and the layer.
lc_destroyInodes_count(t) ==
    /\ pc[t] = "di_count"
    /\ gfs' = [gfs EXCEPT
                  !.sb_inodes = @ - SuperblockDrop(th[t].remove, th[t].count, th[t].rcount)]
    /\ fs_icount' = [fs_icount EXCEPT
                        ![th[t].fs] = IF th[t].count # 0 THEN @ - th[t].count ELSE @]
    /\ Goto(t, "di_done")
    /\ UNCHANGED <<flushVars, inode, fs_icache, ic_lock, fs_ilock, fs_root, fs_rootInode,
                   fs_parent, fs_snap, fs_frozen, fs_removed, th>>

lc_destroyInodes_return(t) ==
    /\ pc[t] = "di_done"
    /\ SetTh(t, NoCall)
    /\ Goto(t, "idle")
    /\ UNCHANGED <<cacheVars, flushVars>>

\* --------------------------------------------------------- lc_readInodes
\* A serialized mode of 0 is a tombstone (line 197).
IsTombstone_never(data) == FALSE

IsTombstone(data) == data.st_mode = NoMode

\* The inode numbers a chain holds tombstones of.
Tombstones(chain) ==
    {disk[b].st_ino : b \in {c \in ChainBlocks(chain) \cap DOMAIN disk : disk[c].st_mode = NoMode}}

\* Lines 203-226: the record built from a serialized inode read from iblock.
\* The block map and the directory are read by their readers, the target of
\* a symbolic link is copied into a buffer of the record.
LoadRecord(data, iblock, id) ==
    [lc_newInode EXCEPT
        !.st_ino = data.st_ino, !.st_mode = data.st_mode, !.st_nlink = data.st_nlink,
        !.st_size = data.st_size, !.st_blocks = data.st_blocks,
        !.i_parent = data.i_parent,
        !.i_extentBlock = data.i_extentBlock, !.i_extentLength = data.i_extentLength,
        !.i_block = iblock,
        !.i_bmap = IF S_ISREG(data.st_mode) /\ data.st_blocks > 0 /\ data.i_extentLength = 0
                   THEN id ELSE NULL,
        !.i_bcount = IF S_ISREG(data.st_mode) /\ data.i_extentLength = 0
                     THEN data.st_blocks ELSE 0,
        !.i_dirent = IF S_ISDIR(data.st_mode) THEN id ELSE NULL,
        !.i_target = IF S_ISLNK(data.st_mode) THEN id ELSE NULL]

\* The layer structure lc_readInodes is called on at mount: its cache holds
\* nothing, or nothing but the root lc_rootInit made for a layer that has no
\* inode blocks yet.
FreshLayer(fs) ==
    \/ Resident(fs) = {}
    \/ Resident(fs) = {fs_rootInode[fs]} /\ sb_inodeBlock[fs] = <<>>

\* The slots of a record that are read: those before the first zero slot.
RECURSIVE Used(_)
Used(buf) ==
    IF buf = <<>> THEN <<>>
    ELSE IF Head(buf) = 0 THEN <<>>
    ELSE <<Head(buf)>> \o Used(Tail(buf))

\* A record taken to end at a freed slot.
EndOfRecord_at_sentinel(buf, i) ==
    i > LC_IBLOCK_MAX \/ i > Len(buf) \/ buf[i] \in {0, LC_INVALID_BLOCK}

\* Lines 184-188: the slots of a record end at LC_IBLOCK_MAX or at the first
\* zero slot (the slots after the last one of a sequence are zero).
EndOfRecord(buf, i) == i > LC_IBLOCK_MAX \/ i > Len(buf) \/ buf[i] = 0

\* Lines 173-179.  A layer mounted again has a new structure: no root inode,
\* no staged pages, no open inode-block record.
lc_readInodes(t, fs) ==
    /\ pc[t] = "idle"
    /\ \A u \in Threads : pc[u] = "idle"
    /\ FreshLayer(fs)
    /\ fs_inodeBlocks[fs] = <<>> \/ Resident(fs) = {}
    /\ IF Resident(fs) = {}
       THEN /\ fs_rootInode' = [fs_rootInode EXCEPT ![fs] = NULL]
            /\ fs_inodePages' = [fs_inodePages EXCEPT ![fs] = <<>>]
            /\ fs_inodePagesCount' = [fs_inodePagesCount EXCEPT ![fs] = 0]
            /\ fs_inodeBlocks' = [fs_inodeBlocks EXCEPT ![fs] = <<>>]
            /\ fs_inodeIndex' = [fs_inodeIndex EXCEPT ![fs] = 0]
            /\ fs_blockInodes' = [fs_blockInodes EXCEPT ![fs] = 0]
            /\ fs_blockInodesCount' = [fs_blockInodesCount EXCEPT ![fs] = 0]
            /\ fs_iwrite' = [fs_iwrite EXCEPT ![fs] = 0]
       ELSE UNCHANGED <<fs_rootInode, fs_inodePages, fs_inodePagesCount, fs_inodeBlocks,
                        fs_inodeIndex, fs_blockInodes, fs_blockInodesCount, fs_iwrite>>
    /\ SetTh(t, [NoCall EXCEPT !.op = "readInodes", !.fs = fs, !.rec = 1,
                               !.tomb = Tombstones(sb_inodeBlock[fs]),
                               !.before =
                                   [chain |-> sb_inodeBlock[fs],
                                    tombs |-> {b \in ChainBlocks(sb_inodeBlock[fs])
                                                      \cap DOMAIN disk :
                                                  disk[b].st_mode = NoMode}]])
    /\ Goto(t, "ri_block")
    /\ UNCHANGED <<inode, fs_icache, ic_lock, fs_ilock, fs_root, fs_parent, fs_snap,
                   fs_frozen, fs_removed, fs_icount, gfs, sb_inodeBlock, disk, nextBlock>>

\* Lines 180-183: while the block is valid, the inode-block record is read
\* into the buffer of the layer.
lc_readInodes_block(t) ==
    /\ pc[t] = "ri_block"
    /\ LET fs == th[t].fs
       IN  IF th[t].rec > Len(sb_inodeBlock[fs])
           THEN /\ Goto(t, "ri_end")
                /\ UNCHANGED <<fs_inodeBlocks, th>>
           ELSE /\ fs_inodeBlocks' = [fs_inodeBlocks EXCEPT
                                         ![fs] = <<sb_inodeBlock[fs][th[t].rec]>>]
                /\ SetTh(t, [th[t] EXCEPT !.slot = 1, !.flush = FALSE])
                /\ Goto(t, "ri_slot")
    /\ UNCHANGED <<cacheVars, stageVars, fs_inodeIndex, fs_blockInodes, fs_blockInodesCount,
                   nextBlock, fs_iwrite, sb_inodeBlock>>

\* Lines 184-208: one slot of the record.  A zero slot ends the record, the
\* invalid sentinel is skipped, a tombstone has its block freed and its slot
\* replaced by the sentinel, anything else becomes a record of the cache.
lc_readInodes_slot(t) ==
    /\ pc[t] = "ri_slot"
    /\ LET fs == th[t].fs
           buf == fs_inodeBlocks[fs][1]
           i == th[t].slot
       IN  IF EndOfRecord(buf, i)
           THEN /\ Goto(t, "ri_write")
                /\ UNCHANGED <<inode, fs_icount, fs_inodeBlocks, disk, th>>
           ELSE IF buf[i] = LC_INVALID_BLOCK
           THEN /\ SetTh(t, [th[t] EXCEPT !.slot = i + 1])
                /\ UNCHANGED <<inode, fs_icount, fs_inodeBlocks, disk, pc>>
           ELSE IF IsTombstone(disk[buf[i]])
           THEN /\ disk' = [b \in DOMAIN disk \ {buf[i]} |-> disk[b]]
                /\ fs_inodeBlocks' = [fs_inodeBlocks EXCEPT ![fs][1][i] = LC_INVALID_BLOCK]
                /\ SetTh(t, [th[t] EXCEPT !.slot = i + 1, !.flush = TRUE])
                /\ UNCHANGED <<inode, fs_icount, pc>>
           ELSE /\ inode' = Append(inode, LoadRecord(disk[buf[i]], buf[i], Len(inode) + 1))
                /\ fs_icount' = [fs_icount EXCEPT ![fs] = @ + 1]
                /\ SetTh(t, [th[t] EXCEPT !.inode = Len(inode) + 1, !.after = "ri_root"])
                /\ Goto(t, "ai_link")
                /\ UNCHANGED <<fs_inodeBlocks, disk>>
    /\ UNCHANGED <<fs_icache, ic_lock, fs_ilock, fs_root, fs_rootInode, fs_parent, fs_snap,
                   fs_frozen, fs_removed, gfs, fs_inodePages, fs_inodePagesCount,
                   fs_inodeIndex, fs_blockInodes, fs_blockInodesCount, nextBlock, fs_iwrite,
                   sb_inodeBlock>>

\* Lines 209-229: the record with the root number of the layer must be a
\* directory and becomes the root inode of the layer.
lc_readInodes_root(t) ==
    /\ pc[t] = "ri_root"
    /\ LET fs == th[t].fs
           i == th[t].inode
       IN  IF inode[i].st_ino # fs_root[fs]
           THEN /\ Goto(t, "ri_slot")
                /\ UNCHANGED fs_rootInode
           ELSE IF ~S_ISDIR(inode[i].st_mode)
           THEN /\ Goto(t, "crashed")
                /\ UNCHANGED fs_rootInode
           ELSE /\ fs_rootInode' = [fs_rootInode EXCEPT ![fs] = i]
                /\ Goto(t, "ri_slot")
    /\ SetTh(t, [th[t] EXCEPT !.slot = @ + 1, !.inode = NULL])
    /\ UNCHANGED <<flushVars, inode, fs_icache, ic_lock, fs_ilock, fs_root, fs_parent,
                   fs_snap, fs_frozen, fs_removed, fs_icount, gfs>>

\* Lines 231-235: a record that lost a tombstone is written back, and the
\* load goes on with the next record of the chain.
lc_readInodes_write(t) ==
    /\ pc[t] = "ri_write"
    /\ LET fs == th[t].fs
       IN  IF th[t].flush
           THEN sb_inodeBlock' = [sb_inodeBlock EXCEPT
                                    ![fs][th[t].rec] = fs_inodeBlocks[fs][1]]
           ELSE UNCHANGED sb_inodeBlock
    /\ SetTh(t, [th[t] EXCEPT !.rec = @ + 1, !.flush = FALSE])
    /\ Goto(t, "ri_block")
    /\ UNCHANGED <<cacheVars, stageVars, allocVars, fs_iwrite>>

\* An assertion that always fails.
RootMissing_always(fs) == TRUE

\* Line 237: assert(fs->fs_rootInode != NULL) fails.
RootMissing(fs) == fs_rootInode[fs] = NULL

\* Lines 237-243: the layer must have its root inode by now; the buffers are
\* freed.
lc_readInodes_end(t) ==
    /\ pc[t] = "ri_end"
    /\ IF RootMissing(th[t].fs)
       THEN /\ Goto(t, "crashed")
            /\ UNCHANGED fs_inodeBlocks
       ELSE /\ fs_inodeBlocks' = [fs_inodeBlocks EXCEPT ![th[t].fs] = <<>>]
            /\ Goto(t, "ri_done")
    /\ UNCHANGED <<cacheVars, stageVars, fs_inodeIndex, fs_blockInodes, fs_blockInodesCount,
                   nextBlock, fs_iwrite, sb_inodeBlock, th>>

lc_readInodes_return(t) ==
    /\ pc[t] = "ri_done"
    /\ SetTh(t, NoCall)
    /\ Goto(t, "idle")
    /\ UNCHANGED <<cacheVars, flushVars>>

\* ------------------------------------------------------- specification
\* T: the threads that run; LockModes[copy]: the lock modes a caller asks for;
\* Fmts: the file types lc_inodeInit is called with.
NextOf(T, LockModes, Fmts) ==
    \/ lc_rootInit(Leaf, Leaf)
    \/ \E t \in T, fs \in Layers, copy \in BOOLEAN : \E exclusive \in LockModes[copy] :
          \E ino \in ArgInos(fs) : \E handle \in Handles(fs, ino) :
             lc_getInode(t, fs, ino, handle, copy, exclusive)
    \/ \E t \in T : lc_getInodeParent_lock(t)
    \/ \E t \in T : lc_getInodeParent_recheck(t)
    \/ \E t \in T : lc_getInodeParent_walk(t)
    \/ \E t \in T : lc_getInodeParent_unlock(t)
    \/ \E t \in T : lc_cloneInode_new(t)
    \/ \E t \in T : lc_cloneInode_dirty(t)
    \/ \E t \in T : lc_cloneInode_count(t)
    \/ \E t \in T : lc_addInode_link(t)
    \/ \E t \in T : lc_addInode_unlock(t)
    \/ \E t \in T : lc_addInode_setfs(t)
    \/ \E t \in T : lc_inodeLock(t)
    \/ \E t \in T : lc_inodeUnlock(t)
    \/ \E t \in T, mode \in Fmts : lc_inodeAlloc(t, Leaf, mode)
    \/ \E t \in T : lc_inodeInit_new(t)
    \/ \E t \in T : RemoveInode(t)

\* Request threads running concurrently; a caller that may modify the inode
\* (copy) locks it exclusively, a reader shared; new inodes are regular files.
Next == NextOf(Threads, [copy \in BOOLEAN |-> {copy}], {S_IFREG})
Spec == Init /\ [][Next]_vars

\* One request thread, over every state after mount, lock mode and file type.
NextSeq == NextOf({1}, [copy \in BOOLEAN |-> BOOLEAN], {S_IFREG, S_IFDIR, S_IFLNK})
SpecSeq == InitSeq /\ [][NextSeq]_vars


\* One thread that creates, locks, changes, removes and flushes inodes of the
\* leaf and syncs every layer.
NextFlush ==
    \/ lc_rootInit(Leaf, Leaf)
    \/ \E i \in Resident(Leaf) : lc_getInode(1, Leaf, inode[i].st_ino, NULL, FALSE, TRUE)
    \/ lc_addInode_link(1)
    \/ lc_addInode_unlock(1)
    \/ lc_addInode_setfs(1)
    \/ lc_inodeLock(1)
    \/ lc_inodeUnlock(1)
    \/ lc_inodeAlloc(1, Leaf, S_IFLNK)
    \/ lc_inodeInit_new(1)
    \/ RemoveInode(1)
    \/ \E what \in {"inode", "xattr", "xattr_only"} : lc_markInodeDirty(1, what)
    \/ MarkLayerRemoved(Leaf)
    \/ lc_invalidateInodePages(1, Leaf)
    \/ lc_flushInode_call(1)
    \/ lc_flushInode_xattr(1)
    \/ lc_flushInode_bmap(1)
    \/ lc_flushInode_dir(1)
    \/ lc_flushInode_dirty(1)
    \/ lc_flushInode_block(1)
    \/ lc_flushInode_page(1)
    \/ lc_flushInode_cluster(1)
    \/ lc_flushInode_stage(1)
    \/ lc_flushInode_full(1)
    \/ lc_flushInode_clear(1)
    \/ \E fs \in Layers : lc_syncInodes(1, fs)
    \/ lc_syncInodes_bucket(1)
    \/ lc_syncInodes_loop(1)
    \/ lc_syncInodes_next(1)
    \/ lc_syncInodes_pages(1)
    \/ lc_syncInodes_blocks(1)
    \/ lc_syncInodes_count(1)
    \/ lc_syncInodes_return(1)
InitFlush == Mounted("REGempty", [l \in Ancestors |-> "absent"])
SpecFlush == InitFlush /\ [][NextFlush]_vars

\* One thread creates, removes, flushes and syncs the inodes of the leaf; the
\* leaf is unmounted or deleted (lc_destroyInodes) and loaded again from its
\* inode blocks (lc_readInodes).
NextLoad ==
    \/ pc[1] = "idle" /\ lc_rootInit(Leaf, Leaf)
    \/ \E i \in Resident(Leaf) : lc_getInode(1, Leaf, inode[i].st_ino, NULL, FALSE, TRUE)
    \/ lc_addInode_link(1)
    \/ lc_addInode_unlock(1)
    \/ lc_addInode_setfs(1)
    \/ lc_inodeLock(1)
    \/ lc_inodeUnlock(1)
    \/ lc_inodeAlloc(1, Leaf, S_IFLNK)
    \/ lc_inodeInit_new(1)
    \/ RemoveInode(1)
    \/ lc_markInodeDirty(1, "inode")
    \/ lc_flushInode_call(1)
    \/ lc_flushInode_xattr(1)
    \/ lc_flushInode_bmap(1)
    \/ lc_flushInode_dir(1)
    \/ lc_flushInode_dirty(1)
    \/ lc_flushInode_block(1)
    \/ lc_flushInode_page(1)
    \/ lc_flushInode_cluster(1)
    \/ lc_flushInode_stage(1)
    \/ lc_flushInode_full(1)
    \/ lc_flushInode_clear(1)
    \/ Resident(Leaf) # {} /\ lc_syncInodes(1, Leaf)
    \/ lc_syncInodes_bucket(1)
    \/ lc_syncInodes_loop(1)
    \/ lc_syncInodes_next(1)
    \/ lc_syncInodes_pages(1)
    \/ lc_syncInodes_blocks(1)
    \/ lc_syncInodes_count(1)
    \/ lc_syncInodes_return(1)
    \/ \E remove \in BOOLEAN : lc_destroyInodes(1, Leaf, remove)
    \/ lc_destroyInodes_bucket(1)
    \/ lc_destroyInodes_count(1)
    \/ lc_destroyInodes_return(1)
    \/ lc_readInodes(1, Leaf)
    \/ lc_readInodes_block(1)
    \/ lc_readInodes_slot(1)
    \/ lc_readInodes_root(1)
    \/ lc_readInodes_write(1)
    \/ lc_readInodes_end(1)
    \/ lc_readInodes_return(1)
SpecLoad == InitFlush /\ [][NextLoad]_vars

\* Two threads lock and unlock, shared and exclusive, the inodes they look
\* up through any layer, without copying them.
NextLock ==
    \/ lc_rootInit(Leaf, Leaf)
    \/ \E t \in Threads, fs \in Layers, exclusive \in BOOLEAN :
          \E ino \in {fs_root[fs], DataIno} :
             lc_getInode(t, fs, ino, NULL, FALSE, exclusive)
    \/ \E t \in Threads : lc_getInodeParent_lock(t)
    \/ \E t \in Threads : lc_getInodeParent_recheck(t)
    \/ \E t \in Threads : lc_getInodeParent_walk(t)
    \/ \E t \in Threads : lc_getInodeParent_unlock(t)
    \/ \E t \in Threads : lc_inodeLock(t)
    \/ \E t \in Threads : lc_inodeUnlock(t)
SpecLock == InitLock /\ [][NextLock]_vars

\* The layer is frozen: the flag is set once and never cleared.
FreezeLayer(fs) ==
    /\ ~fs_frozen[fs]
    /\ fs_frozen' = [fs_frozen EXCEPT ![fs] = TRUE]
    /\ UNCHANGED <<inode, fs_icache, ic_lock, fs_ilock, fs_root, fs_rootInode, fs_parent,
                   fs_snap, fs_removed, fs_icount, gfs, flushVars, pc, th>>

\* Two threads lock and unlock the inodes they look up, each lock paired
\* with one unlock; the base layer is frozen at any moment.
NextFreeze ==
    \/ lc_rootInit(Leaf, Leaf)
    \/ \E t \in Threads, fs \in Layers, exclusive \in BOOLEAN :
          \E ino \in {fs_root[fs], DataIno} :
             lc_getInode(t, fs, ino, NULL, FALSE, exclusive)
    \/ \E t \in Threads : lc_getInodeParent_lock(t)
    \/ \E t \in Threads : lc_getInodeParent_recheck(t)
    \/ \E t \in Threads : lc_getInodeParent_walk(t)
    \/ \E t \in Threads : lc_getInodeParent_unlock(t)
    \/ \E t \in Threads : lc_inodeLock(t)
    \/ \E t \in Threads : lc_inodeUnlock(t)
    \/ FreezeLayer(1)
InitFreeze ==
    MountedAs("DIR", [l \in Ancestors |-> IF l = 1 THEN "live" ELSE "absent"], NotFrozen)
SpecFreeze == InitFreeze /\ [][NextFreeze]_vars

\* Two threads create inodes in the leaf and flush them at the same time,
\* each the inode it holds locked.
NextRace ==
    \/ lc_rootInit(Leaf, Leaf)
    \/ \E t \in Threads : \E i \in Resident(Leaf) :
          lc_getInode(t, Leaf, inode[i].st_ino, NULL, FALSE, TRUE)
    \/ \E t \in Threads : lc_addInode_link(t)
    \/ \E t \in Threads : lc_addInode_unlock(t)
    \/ \E t \in Threads : lc_addInode_setfs(t)
    \/ \E t \in Threads : lc_inodeLock(t)
    \/ \E t \in Threads : lc_inodeUnlock(t)
    \/ \E t \in Threads : lc_inodeAllocBelow(t, Leaf, S_IFLNK, SnapRootIno + 1)
    \/ \E t \in Threads : lc_inodeInit_new(t)
    \/ \E t \in Threads : lc_markInodeDirty(t, "inode")
    \/ \E t \in Threads : lc_flushInode_call(t)
    \/ \E t \in Threads : lc_flushInode_xattr(t)
    \/ \E t \in Threads : lc_flushInode_bmap(t)
    \/ \E t \in Threads : lc_flushInode_dir(t)
    \/ \E t \in Threads : lc_flushInode_dirty(t)
    \/ \E t \in Threads : lc_flushInode_load(t)
    \/ \E t \in Threads : lc_flushInode_store(t)
    \/ \E t \in Threads : lc_flushInode_page(t)
    \/ \E t \in Threads : lc_flushInode_cluster(t)
    \/ \E t \in Threads : lc_flushInode_stage(t)
    \/ \E t \in Threads : lc_flushInode_full(t)
    \/ \E t \in Threads : lc_flushInode_clear(t)
SpecRace == InitFlush /\ [][NextRace]_vars

\* The threads create inodes in the leaf and unlock them.
NextAlloc ==
    \/ lc_rootInit(Leaf, Leaf)
    \/ \E t \in Threads, fmt \in {S_IFREG, S_IFDIR} :
          lc_inodeAllocBelow(t, Leaf, fmt, SnapRootIno + MaxAlloc)
    \/ \E t \in Threads : lc_inodeInit_new(t)
    \/ \E t \in Threads : lc_addInode_link(t)
    \/ \E t \in Threads : lc_addInode_unlock(t)
    \/ \E t \in Threads : lc_addInode_setfs(t)
    \/ \E t \in Threads : lc_inodeLock(t)
    \/ \E t \in Threads : lc_inodeUnlock(t)
SpecAlloc == InitFlush /\ [][NextAlloc]_vars

\* One thread creates inodes in the leaf and flushes them, one by one under
\* their lock and all that are dirty by lc_syncInodes.
NextAssign ==
    \/ lc_rootInit(Leaf, Leaf)
    \/ lc_getInode(1, Leaf, fs_root[Leaf], NULL, FALSE, TRUE)
    \/ lc_addInode_link(1)
    \/ lc_addInode_unlock(1)
    \/ lc_addInode_setfs(1)
    \/ lc_inodeLock(1)
    \/ lc_inodeUnlock(1)
    \/ lc_inodeAllocBelow(1, Leaf, S_IFLNK, SnapRootIno + MaxAlloc)
    \/ lc_inodeInit_new(1)
    \/ lc_markInodeDirty(1, "inode")
    \/ lc_flushInode_call(1)
    \/ lc_flushInode_xattr(1)
    \/ lc_flushInode_bmap(1)
    \/ lc_flushInode_dir(1)
    \/ lc_flushInode_dirty(1)
    \/ lc_flushInode_block(1)
    \/ lc_flushInode_page(1)
    \/ lc_flushInode_cluster(1)
    \/ lc_flushInode_stage(1)
    \/ lc_flushInode_full(1)
    \/ lc_flushInode_clear(1)
    \/ lc_syncInodes(1, Leaf)
    \/ lc_syncInodes_bucket(1)
    \/ lc_syncInodes_loop(1)
    \/ lc_syncInodes_next(1)
    \/ lc_syncInodes_pages(1)
    \/ lc_syncInodes_blocks(1)
    \/ lc_syncInodes_count(1)
    \/ lc_syncInodes_return(1)
SpecAssign == InitFlush /\ [][NextAssign]_vars

\* Request threads and the flusher thread sync the leaf while its inodes are
\* created, locked, changed and flushed.
NextSync ==
    \/ lc_rootInit(Leaf, Leaf)
    \/ \E t \in Threads : lc_getInode(t, Leaf, fs_root[Leaf], NULL, FALSE, TRUE)
    \/ \E t \in Threads : lc_inodeLock(t)
    \/ \E t \in Threads : lc_inodeUnlock(t)
    \/ \E t \in Threads : lc_markInodeDirty(t, "inode")
    \/ \E t \in Threads : lc_flushInode_call(t)
    \/ \E t \in Threads : lc_flushInode_xattr(t)
    \/ \E t \in Threads : lc_flushInode_bmap(t)
    \/ \E t \in Threads : lc_flushInode_dir(t)
    \/ \E t \in Threads : lc_flushInode_dirty(t)
    \/ \E t \in Threads : lc_flushInode_block(t)
    \/ \E t \in Threads : lc_flushInode_page(t)
    \/ \E t \in Threads : lc_flushInode_cluster(t)
    \/ \E t \in Threads : lc_flushInode_stage(t)
    \/ \E t \in Threads : lc_flushInode_full(t)
    \/ \E t \in Threads : lc_flushInode_clear(t)
    \/ \E t \in Threads : lc_syncInodes(t, Leaf)
    \/ \E t \in Threads : lc_syncInodes_bucket(t)
    \/ \E t \in Threads : lc_syncInodes_loop(t)
    \/ \E t \in Threads : lc_syncInodes_next(t)
    \/ \E t \in Threads : lc_syncInodes_pages(t)
    \/ \E t \in Threads : lc_syncInodes_blocks(t)
    \/ \E t \in Threads : lc_syncInodes_count(t)
    \/ \E t \in Threads : lc_syncInodes_return(t)
SpecSync == InitFlush /\ [][NextSync]_vars

\* The loader on every chain of at most MaxRecords inode-block records over
\* LC_IBLOCK_MAX + 1 child blocks: a slot is zero, the invalid sentinel or
\* the address of a child block that no other slot holds; the first child
\* block holds the root directory of the leaf, another one a regular file, a
\* symbolic link or a tombstone.
ReadBlocks == StartBlock..(StartBlock + LC_IBLOCK_MAX)
\* The serialized inode of child block b: the mode is zero for kind "NONE".
Dinode(b, kind) ==
    IF b = StartBlock THEN PageData([RootRec(Leaf) EXCEPT !.i_block = b])
    ELSE PageData([lc_newInode EXCEPT
                      !.st_ino = IF (b - StartBlock) % 2 = 1 THEN DataIno ELSE MaxIno,
                      !.st_mode = [fmt |-> kind, perm |-> 644],
                      !.st_nlink = IF kind = "NONE" THEN 0 ELSE 1,
                      !.st_size = IF kind = S_IFLNK THEN 1 ELSE 0,
                      !.i_parent = Leaf,
                      !.i_target = IF kind = S_IFLNK THEN b ELSE NULL,
                      !.i_removed = kind = "NONE"])
ReadChains ==
    LET slots == {0, LC_INVALID_BLOCK} \cup ReadBlocks
        records == UNION {[1..n -> slots] : n \in 1..LC_IBLOCK_MAX}
    IN  UNION {[1..n -> records] : n \in 0..MaxRecords}
\* No two slots of the chain hold the same child address.
AddressedOnce(chain) ==
    LET at == {<<r, k>> \in (1..Len(chain)) \X (1..LC_IBLOCK_MAX) : k <= Len(chain[r])}
    IN  \A x, y \in at :
           (x # y /\ chain[x[1]][x[2]] \in ReadBlocks)
           => chain[x[1]][x[2]] # chain[y[1]][y[2]]

InitRead ==
    \E chain \in ReadChains, kind \in [ReadBlocks -> {"NONE", S_IFREG, S_IFLNK}] :
        /\ AddressedOnce(chain)
        /\ \A b \in ReadBlocks \ ChainBlocks(chain) : kind[b] = S_IFREG
        /\ LayerInit(NotFrozen)
        /\ inode = InitHeap("REGempty", [l \in Ancestors |-> "absent"])
        /\ fs_icache = [l \in Layers |-> [b \in Buckets |-> ChainOf(inode, l, b, Len(inode))]]
        /\ fs_icount = [l \in Layers |-> IF l < NLayers THEN 1 ELSE 0]
        /\ gfs = [sb_inodes |-> Len(inode), sb_ninode |-> SnapRootIno, gfs_clones |-> 0,
                  gfs_snap_root |-> SnapRootIno, gfs_snap_rootInode |-> NLayers]
        /\ fs_rootInode = [l \in Layers |-> IF l < NLayers THEN l ELSE NULL]
        /\ fs_inodePages = [l \in Layers |-> <<>>]
        /\ fs_inodePagesCount = [l \in Layers |-> 0]
        /\ fs_inodeBlocks = [l \in Layers |-> <<>>]
        /\ fs_inodeIndex = [l \in Layers |-> 0]
        /\ fs_blockInodes = [l \in Layers |-> 0]
        /\ fs_blockInodesCount = [l \in Layers |-> 0]
        /\ fs_iwrite = [l \in Layers |-> 0]
        /\ sb_inodeBlock = [l \in Layers |->
                               IF l = Leaf THEN chain ELSE Pack(BlocksOfLayer(inode, l, 1))]
        /\ disk = [b \in {100 + id : id \in 1..Len(inode)} \cup ReadBlocks |->
                      IF b \in ReadBlocks THEN Dinode(b, kind[b])
                      ELSE PageData(inode[b - 100])]
        /\ nextBlock = StartBlock + LC_IBLOCK_MAX + 1

\* The steps of lc_readInodes after the call.
Reads(t) ==
    \/ lc_readInodes_block(t)
    \/ lc_readInodes_slot(t)
    \/ lc_addInode_link(t)
    \/ lc_addInode_unlock(t)
    \/ lc_addInode_setfs(t)
    \/ lc_readInodes_root(t)
    \/ lc_readInodes_write(t)

NextRead ==
    \/ pc[1] = "idle" /\ lc_rootInit(Leaf, Leaf)
    \/ lc_readInodes(1, Leaf)
    \/ lc_readInodes_block(1)
    \/ lc_readInodes_slot(1)
    \/ lc_addInode_link(1)
    \/ lc_addInode_unlock(1)
    \/ lc_addInode_setfs(1)
    \/ lc_readInodes_root(1)
    \/ lc_readInodes_write(1)
    \/ lc_readInodes_end(1)
    \/ lc_readInodes_return(1)

\* The thread that loads a layer is not held up for ever.
SpecRead == InitRead /\ [][NextRead]_vars /\ WF_vars(Reads(1))

\* Request threads get inodes through the leaf, by number, to read or to
\* modify them, and create inodes in it, while they keep other inodes locked.
\* A thread that is not waiting for a lock goes on (the scheduler runs every
\* thread), and a mutex that is released again and again is in the end given
\* to a thread that waits for it.
NextOrder ==
    \/ lc_rootInit(Leaf, Leaf)
    \/ \E t \in Threads, copy \in BOOLEAN, ino \in {DataIno, MaxIno} :
          /\ \A i \in HeldBy(t) : inode[i].st_ino # ino
          /\ lc_getInode(t, Leaf, ino, NULL, copy, copy)
    \/ \E t \in Threads : lc_getInodeParent_lock(t)
    \/ \E t \in Threads : lc_getInodeParent_recheck(t)
    \/ \E t \in Threads : lc_getInodeParent_walk(t)
    \/ \E t \in Threads : lc_getInodeParent_unlock(t)
    \/ \E t \in Threads : lc_cloneInode_new(t)
    \/ \E t \in Threads : lc_cloneInode_dirty(t)
    \/ \E t \in Threads : lc_cloneInode_count(t)
    \/ \E t \in Threads : lc_addInode_link(t)
    \/ \E t \in Threads : lc_addInode_unlock(t)
    \/ \E t \in Threads : lc_addInode_setfs(t)
    \/ \E t \in Threads : lc_inodeLock(t)
    \/ \E t \in Threads : lc_inodeUnlock(t)
    \/ \E t \in Threads : KeepInode(t)
    \/ \E t \in Threads : \E i \in HeldBy(t) : lc_inodeUnlock_kept(t, i)
    \/ \E t \in Threads : lc_inodeAllocBelow(t, Leaf, S_IFREG, SnapRootIno + 1)
    \/ \E t \in Threads : lc_inodeInit_new(t)

\* The steps of thread t that wait for nothing.
Runs(t) ==
    \/ lc_getInodeParent_recheck(t)
    \/ lc_getInodeParent_walk(t)
    \/ lc_getInodeParent_unlock(t)
    \/ lc_cloneInode_new(t)
    \/ lc_cloneInode_dirty(t)
    \/ lc_cloneInode_count(t)
    \/ lc_addInode_unlock(t)
    \/ lc_addInode_setfs(t)

FairOrder ==
    \A t \in Threads :
        /\ WF_vars(Runs(t))
        /\ SF_vars(lc_getInodeParent_lock(t))
        /\ SF_vars(lc_addInode_link(t))

SpecOrder == Init /\ [][NextOrder]_vars /\ FairOrder

\* ================================================================ claims
\* The step of thread t, and the arguments of the call the step belongs to.
StepOf(t) == pc'[t] # pc[t] \/ th'[t].pfs # th[t].pfs
Args(t) == IF pc[t] = "idle" THEN th'[t] ELSE th[t]

\* The records of layer fs numbered ino, and the nearest ancestor record of
\* that number, from layer pfs upwards.
RecordsOf(fs, ino) == {i \in Resident(fs) : inode[i].st_ino = ino}
RECURSIVE AncestorHit(_, _)
AncestorHit(pfs, ino) ==
    IF pfs = NULL THEN NULL
    ELSE IF RecordsOf(pfs, ino) # {} THEN CHOOSE i \in RecordsOf(pfs, ino) : TRUE
    ELSE AncestorHit(fs_parent[pfs], ino)

\* The answer of thread t's lc_getInode is decided.
Decided(t) == th[t].op = "getInode" /\ pc[t] \in {"gp_unlock", "gi_lock", "gi_done"}
Overlap(t, u) == t \in th[u].conc /\ u \in th[t].conc

\* C1: every bucket list of every layer holds at most one record per inode
\* number, in every interleaving of the inserting and looking-up operations.
C1_CacheUnique ==
    \A l \in Layers, n \in Inos :
        Cardinality({k \in 1..Len(fs_icache[l][lc_inodeHash(n)]) :
                        inode[fs_icache[l][lc_inodeHash(n)][k]].st_ino = n}) <= 1

\* Two overlapping copying lookups of a number the layer lacked have both got
\* their answer, and the layer holds the one clone.
C1_Witness ==
    \E t, u \in Threads :
        /\ t # u /\ Decided(t) /\ Decided(u) /\ Overlap(t, u)
        /\ th[t].copy /\ th[u].copy /\ th[t].absent /\ th[u].absent
        /\ th[t].fs = th[u].fs /\ th[t].ino = th[u].ino
        /\ th[t].cloned /\ ~th[u].cloned /\ th[u].inode = th[t].inode

\* Two overlapping lc_getInode calls without hint on one layer for one number
\* that the layer's cache lacked when each started.
SameAbsent(t, u) ==
    /\ t # u /\ Decided(t) /\ Decided(u) /\ Overlap(t, u)
    /\ th[t].handle = NULL /\ th[u].handle = NULL
    /\ th[t].fs = th[u].fs /\ th[t].ino = th[u].ino
    /\ th[t].absent /\ th[u].absent

\* C2 as stated: two such calls get the same record whatever their copy
\* arguments.
C2_Original ==
    \A t, u \in Threads : SameAbsent(t, u) => th[t].inode = th[u].inode

\* C2 amended: two concurrent lookups of a number that an ancestor holds and
\* the layer lacked get the same record when their copy arguments are equal
\* and, for copy = false, no clone of the number has entered the layer.
C2_SameCopySameRecord ==
    \A t, u \in Threads :
        /\ SameAbsent(t, u)
        /\ th[t].copy = th[u].copy
        /\ AncestorHit(fs_parent[th[t].fs], th[t].ino) # NULL
        /\ ~th[t].copy => RecordsOf(th[t].fs, th[t].ino) = {}
        => th[t].inode = th[u].inode

C2_Witness ==
    \E t, u \in Threads :
        /\ SameAbsent(t, u) /\ th[t].copy /\ th[u].copy
        /\ AncestorHit(fs_parent[th[t].fs], th[t].ino) # NULL
        /\ pc[t] = "gi_done" /\ th[t].inode # NULL /\ th[u].inode = th[t].inode

\* A finished lc_getInode(fs, ino, no hint, copy = false).
PlainLookupDone(t) ==
    /\ pc[t] = "gi_done" /\ th[t].op = "getInode"
    /\ th[t].handle = NULL /\ ~th[t].copy

\* The record of the nearest layer, fs first and then its ancestors, whose
\* cache holds ino in a record that is not removed.
RECURSIVE NearestLive(_, _)
NearestLive(fs, ino) ==
    IF fs = NULL THEN NULL
    ELSE IF \E i \in RecordsOf(fs, ino) : ~inode[i].i_removed
         THEN CHOOSE i \in RecordsOf(fs, ino) : ~inode[i].i_removed
         ELSE NearestLive(fs_parent[fs], ino)

\* The record of the nearest layer whose cache holds ino at all; a removed
\* record counts in fs itself and ends the search with NULL in an ancestor.
FirstHit(fs, ino) ==
    IF RecordsOf(fs, ino) # {} THEN CHOOSE i \in RecordsOf(fs, ino) : TRUE
    ELSE LET p == AncestorHit(fs_parent[fs], ino)
         IN  IF p # NULL /\ inode[p].i_removed THEN NULL ELSE p

\* C3 as stated: a lookup without hint and without copy returns the record of
\* the nearest layer that holds the number in a record that is not removed.
C3_Original ==
    \A t \in Threads : PlainLookupDone(t) => th[t].inode = NearestLive(th[t].fs, th[t].ino)

\* C3 amended: it returns the record of the nearest layer, the layer itself
\* first, whose cache holds the number; when that layer is an ancestor and the
\* record is removed it returns NULL without looking at farther ancestors, and
\* a removed record of the layer itself is returned.
C3_FirstHolderDecides ==
    \A t \in Threads : PlainLookupDone(t) => th[t].inode = FirstHit(th[t].fs, th[t].ino)

\* A lookup from the leaf answered from a layer that is not its parent.
C3_Witness ==
    \E t \in Threads :
        /\ PlainLookupDone(t) /\ th[t].inode # NULL /\ th[t].ino = DataIno
        /\ inode[th[t].inode].i_fs # NULL
        /\ inode[th[t].inode].i_fs < fs_parent[th[t].fs]

\* The number is absent from the layer and the first ancestor that holds it
\* holds it removed.
Tombstoned(fs, ino) ==
    /\ fs \in Layers
    /\ lc_lookupInode(fs, ino) = NULL
    /\ RecordsOf(fs, ino) = {}
    /\ AncestorHit(fs_parent[fs], ino) # NULL
    /\ inode[AncestorHit(fs_parent[fs], ino)].i_removed

\* C4: every step of a lookup without hint of a tombstoned number, with copy
\* or without, leaves the inodes, the caches, the counters and the inode locks
\* as they are, and the call ends with NULL and without the layer's ilock.
C4_TombstoneNull ==
    [][\A t \in Threads :
          (/\ StepOf(t)
           /\ Args(t).op = "getInode" /\ Args(t).handle = NULL
           /\ Tombstoned(Args(t).fs, Args(t).ino))
          => /\ inode' = inode /\ fs_icache' = fs_icache /\ gfs' = gfs
             /\ fs_icount' = fs_icount /\ ic_lock' = ic_lock
             /\ pc'[t] \in {"gp_lock", "gp_recheck", "gp_walk", "gp_unlock",
                             "gi_done", "idle"}
             /\ pc'[t] = "gi_done" => (th'[t].inode = NULL /\ fs_ilock'[Args(t).fs] # t)]_vars

C4_Witness ==
    \E t \in Threads :
        /\ pc[t] = "gi_done" /\ th[t].op = "getInode" /\ th[t].handle = NULL
        /\ th[t].copy /\ Tombstoned(th[t].fs, th[t].ino) /\ th[t].inode = NULL

\* C5: the clone C of a regular file P has one of three shapes, never both an
\* extent and a block map, and is dirty when lc_cloneInode returns.
C5_CloneShapes ==
    \A t \in Threads :
        (pc[t] = "gp_unlock" /\ th[t].cloned /\ S_ISREG(inode[th[t].parent].st_mode))
        => LET c == inode[th[t].inode]
               p == inode[th[t].parent]
           IN  /\ p.st_blocks = 0 =>
                     /\ c.i_private /\ ~c.i_shared /\ c.i_bmap = NULL
                     /\ c.i_extentLength = 0 /\ ~c.i_bmapdirty
               /\ (p.st_blocks # 0 /\ p.i_extentLength > 0) =>
                     /\ c.i_extentBlock = p.i_extentBlock
                     /\ c.i_extentLength = p.i_extentLength
                     /\ ~c.i_shared /\ c.i_bmap = NULL /\ ~c.i_private
               /\ (p.st_blocks # 0 /\ p.i_extentLength = 0) =>
                     /\ c.i_bmap = p.i_bmap /\ c.i_shared /\ c.i_bmapdirty
                     /\ c.i_extentLength = 0 /\ ~c.i_private
               /\ ~(c.i_extentLength > 0 /\ c.i_bmap # NULL)
               /\ c.i_dirty

\* A clone of a regular file that has an extent has been made.
C5_Witness ==
    \E t \in Threads :
        /\ pc[t] = "gp_unlock" /\ th[t].cloned
        /\ S_ISREG(inode[th[t].parent].st_mode)
        /\ inode[th[t].parent].i_extentLength > 0
        /\ inode[th[t].inode].i_extentBlock = inode[th[t].parent].i_extentBlock

\* C6: the steps of a copying lookup without hint, from the call to the lock
\* of the clone, change no record and no bucket list of another layer, and
\* change the layer's own cache only by linking one record of the number; the
\* clone returned is then the layer's one record of that number.
C6_CloneFrame ==
    /\ [][\A t \in Threads :
            (/\ StepOf(t) /\ pc[t] # "gi_done"
             /\ Args(t).op = "getInode" /\ Args(t).copy /\ Args(t).handle = NULL
             /\ pc[t] = "gi_lock" => th[t].cloned)
            => LET fs == Args(t).fs
               IN  /\ \A i \in 1..Len(inode) :
                         inode[i].i_fs \notin {NULL, fs} => inode'[i] = inode[i]
                   /\ \A l \in Layers \ {fs} : fs_icache'[l] = fs_icache[l]
                   /\ \/ fs_icache'[fs] = fs_icache[fs]
                      \/ /\ pc[t] = "ai_link"
                         /\ inode[th[t].inode].st_ino = th[t].ino
                         /\ fs_icache'[fs] =
                               [fs_icache[fs] EXCEPT ![lc_inodeHash(th[t].ino)] =
                                                       <<th[t].inode>> \o @]]_vars
    /\ [](\A t \in Threads :
            (pc[t] = "gi_done" /\ th[t].op = "getInode" /\ th[t].cloned)
            => RecordsOf(th[t].fs, th[t].ino) = {th[t].inode})

C6_Witness ==
    \E t \in Threads :
        /\ pc[t] = "gi_done" /\ th[t].op = "getInode" /\ th[t].cloned
        /\ th[t].handle = NULL /\ inode[th[t].inode].cloneOf = th[t].parent
        /\ inode[th[t].parent].i_fs < th[t].fs

\* The step in which thread t's lookup reads the layer's cache for its answer.
LookupStep(t) ==
    \/ /\ pc[t] = "idle" /\ pc'[t] # "idle" /\ th'[t].op = "getInode"
       /\ ~(th'[t].handle # NULL /\ (~th'[t].copy \/ inode[th'[t].handle].i_fs = th'[t].fs))
    \/ pc[t] = "gp_recheck" /\ pc'[t] # "gp_recheck"
    \/ pc[t] = "gp_walk" /\ pc'[t] = "gp_unlock"

\* C7: a lookup that reads the layer's cache when a clone of the number is in
\* it gets the clone, never the ancestor's record.
C7_CloneSeenAfterInsert ==
    [][\A t \in Threads :
          (/\ LookupStep(t)
           /\ \E c \in RecordsOf(Args(t).fs, Args(t).ino) : inode[c].cloneOf # NULL)
          => /\ th'[t].inode \in RecordsOf(Args(t).fs, Args(t).ino)
             /\ pc'[t] \in {"gi_lock", "gp_unlock"}]_vars

\* A lookup without copy that missed in the cache at its start has got the
\* clone that another thread inserted meanwhile.
C7_Witness ==
    \E t \in Threads :
        /\ Decided(t) /\ ~th[t].copy /\ th[t].handle = NULL /\ th[t].absent
        /\ th[t].inode # NULL /\ inode[th[t].inode].cloneOf # NULL
        /\ th[t].inode \in RecordsOf(th[t].fs, th[t].ino)

\* Thread t is executing lc_flushInode.
InFlush(t) ==
    pc[t] \in {"fl_xattr", "fl_bmap", "fl_dir", "fl_dirty", "fl_block", "fl_page",
               "fl_cluster", "fl_stage", "fl_full", "fl_clear"}

\* C8: a thread that executes lc_flushInode on an inode, from lc_syncInodes
\* too, holds the inode's lock exclusively, and no two threads execute
\* lc_flushInode on the same inode at the same time.
C8_FlushSerialized ==
    \A t \in Threads :
        InFlush(t) =>
            /\ inode[th[t].inode].i_rwlock.w = t
            /\ \A u \in Threads \ {t} : ~(InFlush(u) /\ th[u].inode = th[t].inode)

\* C9: when lc_syncInodes returns on a layer that is not marked removed, no
\* resident inode is dirty, nothing is staged and the staged count is 0, no
\* inode-block record is open and every inode block of the layer is in the
\* committed chain, and every inode that was dirty at the call and has or
\* gets a disk copy had its page handed to a cluster flush, which wrote it.
C9_SyncDurable ==
    \A t \in Threads :
        (pc[t] = "sy_done" /\ ~fs_removed[th[t].fs])
        => LET fs == th[t].fs
           IN  /\ \A i \in Resident(fs) : ~inode[i].i_dirty
               /\ fs_inodePages[fs] = <<>>
               /\ fs_inodePagesCount[fs] = 0
               /\ fs_inodeBlocks[fs] = <<>>
               /\ \A i \in Resident(fs) :
                     inode[i].i_block # LC_INVALID_BLOCK
                     => inode[i].i_block \in ChainBlocks(sb_inodeBlock[fs])
               /\ \A i \in th[t].owed :
                     /\ inode[i].i_block # LC_INVALID_BLOCK
                     /\ inode[i].i_block \in th[t].handed
                     /\ inode[i].i_block \in DOMAIN disk
                     /\ disk[inode[i].i_block] = PageData(inode[i])

\* A sync that had a new inode and a removed inode with a disk copy to write
\* has returned.
C9_Witness ==
    \E t \in Threads :
        /\ pc[t] = "sy_done" /\ ~fs_removed[th[t].fs]
        /\ \E i, j \in th[t].owed :
              /\ inode[i].i_removed /\ ~inode[j].i_removed
              /\ {inode[i].i_block, inode[j].i_block} \subseteq th[t].handed

\* The pages are count pages of consecutive blocks, the last staged first.
IsRun(pages, count) ==
    /\ count = Len(pages)
    /\ \A k \in 1..(Len(pages) - 1) : pages[k].p_block = pages[k + 1].p_block + 1

\* The step of thread t hands the staging list of fs to lc_flushPageCluster.
HandsCluster(t, fs) ==
    /\ pc[t] \in {"fl_cluster", "fl_full", "sy_pages"} /\ pc'[t] # pc[t]
    /\ th[t].fs = fs
    /\ fs_inodePages[fs] # <<>> /\ fs_inodePages'[fs] = <<>>

\* C10: every cluster handed to lc_flushPageCluster is a run of exactly count
\* pages of consecutive blocks, ascending in the order of staging; a page is
\* added to a non-empty staging list only if its block is the successor of
\* the block of the list's head, and what is staged is always such a run.
C10_ClusterContiguity ==
    /\ [][\A fs \in Layers :
            /\ (\E t \in Threads : HandsCluster(t, fs))
               => (fs_inodePagesCount[fs] > 0 /\ IsRun(fs_inodePages[fs], fs_inodePagesCount[fs]))
            /\ (fs_inodePages[fs] # <<>> /\ Len(fs_inodePages'[fs]) > Len(fs_inodePages[fs]))
               => /\ Tail(fs_inodePages'[fs]) = fs_inodePages[fs]
                  /\ Head(fs_inodePages'[fs]).p_block = Head(fs_inodePages[fs]).p_block + 1]_vars
    /\ [](\A fs \in Layers : IsRun(fs_inodePages[fs], fs_inodePagesCount[fs]))

\* A page that does not follow what was staged is about to be staged: the
\* staged pages have been handed to the cluster flush and the list is empty.
C10_Witness ==
    \E t \in Threads :
        /\ pc[t] = "fl_stage"
        /\ fs_inodePages[th[t].fs] = <<>>
        /\ th[t].handed # {}
        /\ (th[t].page.p_block - 1) \notin th[t].handed

\* ---------------------------------------------------------------- C11
\* The slot lc_readInodes is at, when it holds a block.
AtSlot(t) ==
    /\ pc[t] = "ri_slot"
    /\ th[t].slot <= Min({LC_IBLOCK_MAX, Len(fs_inodeBlocks[th[t].fs][1])})

\* C11: tombstone round trip.  lc_flushInode of a removed, dirty inode that
\* has a block makes a page of that block with mode 0 and returns 1.  A load
\* that meets a block with mode 0 inserts nothing, frees the block, puts the
\* invalid sentinel in the slot and writes the inode-block record back; when
\* the load is done no inode number that had a tombstone is in the cache and
\* no slot of the chain holds a tombstone.  A load that meets the sentinel
\* skips the slot.
C11_TombstoneRoundTrip ==
    [][\A t \in Threads :
        LET fs == th[t].fs
            buf == fs_inodeBlocks[fs][1]
            i == th[t].slot
        IN  /\ (pc[t] = "fl_page" /\ pc'[t] = "fl_cluster" /\ inode[th[t].inode].i_removed)
                  => /\ inode[th[t].inode].i_block # LC_INVALID_BLOCK
                     /\ th'[t].page.p_block = inode[th[t].inode].i_block
                     /\ th'[t].page.p_data.st_mode = NoMode
                     /\ th'[t].written
            /\ (AtSlot(t) /\ th'[t].slot # i /\ buf[i] # LC_INVALID_BLOCK
                    /\ disk[buf[i]].st_mode = NoMode)
                  => /\ fs_icache' = fs_icache /\ inode' = inode
                     /\ buf[i] \notin DOMAIN disk'
                     /\ fs_inodeBlocks'[fs][1][i] = LC_INVALID_BLOCK
                     /\ th'[t].flush
            /\ (pc[t] = "ri_write" /\ pc'[t] # "ri_write" /\ th[t].flush)
                  => sb_inodeBlock'[fs][th[t].rec] = buf
            /\ (pc[t] = "ri_end" /\ pc'[t] = "ri_done")
                  => /\ \A n \in th[t].tomb : lc_lookupInodeCache(fs, n) = NULL
                     /\ Tombstones(sb_inodeBlock[fs]) = {}
                     /\ ChainBlocks(sb_inodeBlock[fs]) \subseteq DOMAIN disk
            /\ (AtSlot(t) /\ th'[t].slot # i /\ buf[i] = LC_INVALID_BLOCK)
                  => /\ pc'[t] = "ri_slot" /\ th'[t].slot = i + 1
                     /\ UNCHANGED <<cacheVars, flushVars>>]_vars

\* A second load is at the slot the first load put the sentinel in: the
\* inode was flushed live, removed, flushed again and synced before.
C11_Witness ==
    \E t \in Threads :
        /\ AtSlot(t)
        /\ fs_inodeBlocks[th[t].fs][1][th[t].slot] = LC_INVALID_BLOCK
        /\ Resident(th[t].fs) # {}

\* ---------------------------------------------------------------- C12
\* A removed inode without a block of its own.
NeverWritten(i) == inode[i].i_removed /\ inode[i].i_block = LC_INVALID_BLOCK

\* C12: lc_flushInode on a removed, dirty inode whose i_block is invalid
\* leaves the inode's i_block, the reserved block run, the open inode-block
\* records and their index, the staging list and its count and the disk as
\* they are, and returns 0 with the dirty flag cleared.
C12_DropFrame ==
    [][\A t \in Threads :
        (InFlush(t) /\ pc'[t] # pc[t] /\ NeverWritten(th[t].inode))
          => /\ inode'[th[t].inode].i_block = LC_INVALID_BLOCK
             /\ UNCHANGED <<fs_blockInodes, fs_blockInodesCount, nextBlock>>
             /\ UNCHANGED <<fs_inodeBlocks, fs_inodeIndex>>
             /\ UNCHANGED <<fs_inodePages, fs_inodePagesCount, disk>>
             /\ pc'[t] \notin {"fl_page", "fl_cluster", "fl_stage", "fl_full"}
             /\ pc[t] = "fl_clear"
                  => ~th[t].written /\ ~inode'[th[t].inode].i_dirty /\ pc'[t] = th[t].ret]_vars

\* The flush of such an inode is about to clear its dirty flag.
C12_Witness ==
    \E t \in Threads :
        /\ pc[t] = "fl_clear"
        /\ NeverWritten(th[t].inode)
        /\ inode[th[t].inode].i_dirty
        /\ fs_inodePagesCount[th[t].fs] > 0

\* ---------------------------------------------------------------- C13
\* C13: when lc_destroyInodes(fs, remove) has run, every bucket of the layer
\* is empty, the superblock's inode count is smaller by the number of records
\* the cache held that were not removed when remove is true and is what it
\* was when remove is false, and the layer's inode count is smaller by the
\* number of records the cache held.
C13_DestroyCounts ==
    \A t \in Threads :
        pc[t] = "di_done" =>
            LET fs == th[t].fs
                b == th[t].before
            IN  /\ \A k \in Buckets : fs_icache[fs][k] = <<>>
                /\ gfs.sb_inodes = b.sb_inodes - (IF th[t].remove THEN b.live ELSE 0)
                /\ fs_icount[fs] = b.fs_icount - b.resident

\* A cache with a removed record and a record not removed was destroyed
\* with remove set.
C13_Witness ==
    \E t \in Threads :
        /\ pc[t] = "di_done"
        /\ th[t].remove
        /\ th[t].before.live > 0
        /\ th[t].before.live < th[t].before.resident

\* ---------------------------------------------------------------- C14
\* The thread has the lock call or the unlock call on a record to make.
AtLock(t) == pc[t] = "gi_lock" /\ inode[th[t].inode].i_fs # NULL
AtUnlock(t) == pc[t] = "gi_done" /\ th[t].inode # NULL
FrozenInode(i) == fs_frozen[inode[i].i_fs]

\* C14: on a frozen layer lc_inodeLock and lc_inodeUnlock can always run and
\* leave the rwlock as it is.  On a layer not frozen lc_inodeLock(true)
\* returns from a state where nobody holds the lock and lc_inodeLock(false)
\* from a state where no writer holds it; the caller then holds the lock in
\* the mode asked for, and no inode has a writer together with a reader.
C14_LockContract ==
    [][\A t \in Threads :
        LET i == th[t].inode
        IN  /\ (AtLock(t) /\ FrozenInode(i))
                  => /\ ENABLED lc_inodeLock(t)
                     /\ pc'[t] # pc[t] => inode' = inode /\ pc'[t] = "gi_done"
            /\ (AtUnlock(t) /\ FrozenInode(i))
                  => /\ ENABLED lc_inodeUnlock(t)
                     /\ pc'[t] # pc[t] => inode' = inode
            /\ (AtLock(t) /\ ~FrozenInode(i) /\ pc'[t] # pc[t])
                  => /\ th[t].exclusive => inode[i].i_rwlock = NoLock
                     /\ ~th[t].exclusive => inode[i].i_rwlock.w = NULL
            /\ (AtUnlock(t) /\ ~FrozenInode(i))
                  => IF th[t].exclusive
                     THEN inode[i].i_rwlock = [w |-> t, r |-> {}]
                     ELSE inode[i].i_rwlock.w = NULL /\ t \in inode[i].i_rwlock.r
            /\ \A k \in DOMAIN inode :
                  (inode[k].i_fs # NULL /\ ~FrozenInode(k) /\ inode[k].i_rwlock.w # NULL)
                     => inode[k].i_rwlock.r = {}]_vars

\* Two threads have each locked the same inode of a frozen layer exclusively
\* and its rwlock is free, or one holds an inode of a layer not frozen
\* exclusively while the other waits for it.
C14_Witness ==
    \E t \in Threads, u \in Threads :
        /\ t # u
        /\ AtUnlock(t) /\ th[t].exclusive
        /\ th[u].inode = th[t].inode
        /\ IF FrozenInode(th[t].inode)
           THEN AtUnlock(u) /\ th[u].exclusive /\ inode[th[t].inode].i_rwlock = NoLock
           ELSE AtLock(u) /\ ~ENABLED lc_inodeLock(u)

\* ---------------------------------------------------------------- C15
\* The inode numbers lc_inodeAlloc has handed out: the numbers of the records
\* lc_inodeInit made and the numbers of the calls that have not made theirs.
MadeByInit(i) == inode[i].st_ino > gfs.gfs_snap_root
Allocating(t) == pc[t] = "ii_new"
Handed == {inode[i].st_ino : i \in {k \in DOMAIN inode : MadeByInit(k)}}
          \cup {th[t].ino : t \in {u \in Threads : Allocating(u)}}
Calls == Cardinality({k \in DOMAIN inode : MadeByInit(k)})
         + Cardinality({u \in Threads : Allocating(u)})

\* C15: every call of lc_inodeAlloc gets a number greater than the counter
\* was before the call and different from every number handed out before, in
\* every interleaving of the calling threads, and the counter has advanced
\* by the number of calls.
C15_AllocAtomic ==
    [][/\ \A t \in Threads :
            (~Allocating(t) /\ Allocating(t)')
               => /\ th'[t].ino > gfs.sb_ninode
                  /\ th'[t].ino \notin Handed
                  /\ gfs'.sb_ninode = gfs.sb_ninode + 1
       /\ Cardinality(Handed) = Calls
       /\ gfs.sb_ninode = gfs.gfs_snap_root + Calls]_vars

\* Two calls are under way with their numbers after an earlier call made its
\* inode.
C15_Witness ==
    /\ \A t \in Threads : Allocating(t)
    /\ \E i \in DOMAIN inode : MadeByInit(i)
    /\ Calls = MaxAlloc

\* ---------------------------------------------------------------- C16
\* lc_syncInodes is between two inodes or past the walk, not inside a
\* lc_flushInode call.
BetweenInodes(t) ==
    /\ th[t].op = "syncInodes"
    /\ pc[t] \in {"sy_bucket", "sy_loop", "sy_next", "sy_pages", "sy_blocks", "sy_count"}

\* C16: once the layer is marked removed, lc_syncInodes, from the point
\* where it is between two inodes, calls lc_flushInode no more, flushes no
\* staged pages and does not commit the open inode-block records: the disk,
\* the committed chain, the staging list and the inodes stay as they are.
C16_NoWriteAfterRemoved ==
    [][\A t \in Threads :
        (BetweenInodes(t) /\ fs_removed[th[t].fs] /\ pc'[t] # pc[t])
          => /\ ~InFlush(t)'
             /\ UNCHANGED <<disk, sb_inodeBlock, fs_inodePages, fs_inodePagesCount>>
             /\ UNCHANGED <<fs_inodeBlocks, fs_inodeIndex, inode>>]_vars

\* The layer was marked removed after the call had flushed an inode: the
\* call is past the walk with an inode still dirty, a page still staged and
\* an inode-block record still open.
C16_Witness ==
    \E t \in Threads :
        /\ th[t].op = "syncInodes" /\ pc[t] = "sy_count"
        /\ fs_removed[th[t].fs]
        /\ th[t].count > 0
        /\ \E i \in Resident(th[t].fs) : lc_inodeDirty(i)
        /\ fs_inodePagesCount[th[t].fs] > 0
        /\ fs_inodeBlocks[th[t].fs] # <<>>

\* ---------------------------------------------------------------- C17
\* The thread that inserts record i has writes to it still to make: the i_fs
\* of lc_addInode (line 74) or the i_dirty of lc_cloneInode (line 484).
Initialising(u, i) ==
    /\ th[u].inode = i
    /\ pc[u] \in {"ai_unlock", "ai_setfs", "cl_dirty"}

\* C17: a record a lookup of lc_getInode has got from a bucket list has its
\* i_fs set and no initialising write of its inserter outstanding.
C17_InsertPublishes ==
    \A t \in Threads :
        (th[t].op = "getInode" /\ pc[t] = "gi_lock" /\ ~th[t].cloned)
          => /\ inode[th[t].inode].i_fs # NULL
             /\ \A u \in Threads \ {t} : ~Initialising(u, th[t].inode)

\* ---------------------------------------------------------------- C18
\* lc_readInodes runs on a layer whose superblock has no inode block.
LoadsEmpty(t) == th[t].op = "readInodes" /\ sb_inodeBlock[th[t].fs] = <<>>

\* C18 as stated: lc_readInodes on a layer whose superblock has no inode
\* block trips no assertion.
C18_Original == \A t \in Threads : LoadsEmpty(t) => pc[t] # "crashed"

\* C18: lc_readInodes on a layer whose superblock has no inode block, called
\* after lc_rootInit(fs, root) has set the root inode, trips no assertion,
\* reads no block and loads no inode, and at its end the cache holds one
\* record, numbered root, a directory with mode 0755 and two links, which is
\* the root inode of the layer.
C18_EmptyLoad ==
    [][\A t \in Threads :
        (LoadsEmpty(t) /\ fs_rootInode[th[t].fs] # NULL /\ pc'[t] # pc[t])
          => LET fs == th[t].fs
                 root == fs_rootInode[fs]
             IN  /\ pc'[t] \in {"ri_end", "ri_done", "idle"}
                 /\ UNCHANGED <<inode, fs_icache, fs_icount, fs_rootInode, disk, sb_inodeBlock>>
                 /\ Resident(fs) = {root}
                 /\ inode[root].st_ino = fs_root[fs]
                 /\ inode[root].st_mode = [fmt |-> S_IFDIR, perm |-> 755]
                 /\ inode[root].st_nlink = 2
                 /\ inode[root].i_fs = fs]_vars

\* The load of such a layer is done.
C18_Witness ==
    \E t \in Threads :
        /\ LoadsEmpty(t) /\ pc[t] = "ri_done"
        /\ Resident(th[t].fs) = {fs_rootInode[th[t].fs]}

\* ---------------------------------------------------------------- C19
\* The steps of lc_flushInode before the test of the inode's own dirty flag.
VariantSteps == {"fl_xattr", "fl_bmap", "fl_dir"}

\* C19: within one lc_flushInode call the flusher of every variant that was
\* dirty at the call, and of no other, has been invoked when the inode's own
\* dirty flag is tested, so before the record is copied into a page; this is
\* so when the inode's own flag is clear too, and the call then returns 0
\* and stages nothing.  The variant flushers stage no inode page.
C19_VariantsFirst ==
    [][\A t \in Threads :
        (InFlush(t) /\ pc'[t] \notin {pc[t], "crashed"})
          => LET i == th[t].inode
             IN  /\ pc[t] \in VariantSteps
                      => /\ th'[t].variants \subseteq th[t].due
                         /\ UNCHANGED <<fs_inodePages, fs_inodePagesCount, disk>>
                 /\ pc[t] \in {"fl_dirty", "fl_page"}
                      => th[t].variants = th[t].due /\ DueOf(inode[i]) = {}
                 /\ (pc[t] = "fl_dirty" /\ ~inode[i].i_dirty)
                      => /\ pc'[t] = th[t].ret
                         /\ ~th[t].written
                         /\ UNCHANGED <<fs_inodePages, fs_inodePagesCount, disk>>]_vars

\* A call on an inode whose extended attributes are dirty and whose own flag
\* is clear has invoked the flusher and is at the test of the own flag.
C19_Witness ==
    \E t \in Threads :
        /\ pc[t] = "fl_dirty"
        /\ ~inode[th[t].inode].i_dirty
        /\ th[t].variants = {"xattr"}
        /\ fs_inodePagesCount[th[t].fs] > 0

\* ---------------------------------------------------------------- C20
\* The call is at lines 335-349 with an inode that is written and has no
\* block yet.
Assigns(t) ==
    /\ pc[t] = "fl_block"
    /\ ~inode[th[t].inode].i_removed
    /\ inode[th[t].inode].i_block = LC_INVALID_BLOCK

\* The inode block recorded last in the layer: the last used slot of the
\* newest record, open or committed.
LastRecorded(fs) ==
    LET chain == fs_inodeBlocks[fs] \o sb_inodeBlock[fs]
    IN  Head(chain)[Len(Head(chain))]

\* C20: the first flush of an inode that is not removed opens a new
\* inode-block record exactly when none is open or the index is at
\* LC_IBLOCK_MAX, reserves a run of LC_INODE_CLUSTER_SIZE blocks exactly when
\* the run is used up, gives the inode the next block of the run and records
\* it at the current index; an inode that takes a block of the run the
\* inode before it took from gets the block after that inode's.  The index
\* stays within LC_IBLOCK_MAX, no record has more than LC_IBLOCK_MAX slots
\* written, the count of the run stays within 0..LC_INODE_CLUSTER_SIZE, and
\* no two inodes of a layer have the same block.
C20_BlockAssignment ==
    [][/\ \A t \in Threads :
            (Assigns(t) /\ pc'[t] # pc[t]) =>
                LET fs == th[t].fs
                    i == th[t].inode
                    open == fs_inodeBlocks[fs] # <<>> /\ fs_inodeIndex[fs] < LC_IBLOCK_MAX
                    left == fs_blockInodesCount[fs]
                    block == inode'[i].i_block
                IN  /\ Len(fs_inodeBlocks'[fs])
                          = Len(fs_inodeBlocks[fs]) + (IF open THEN 0 ELSE 1)
                    /\ fs_inodeIndex'[fs] = (IF open THEN fs_inodeIndex[fs] ELSE 0) + 1
                    /\ Head(fs_inodeBlocks'[fs])[fs_inodeIndex'[fs]] = block
                    /\ Len(Head(fs_inodeBlocks'[fs])) = fs_inodeIndex'[fs]
                    /\ IF left = 0
                       THEN /\ fs_blockInodesCount'[fs] = LC_INODE_CLUSTER_SIZE - 1
                            /\ block >= nextBlock
                            /\ nextBlock' = block + LC_INODE_CLUSTER_SIZE
                       ELSE /\ fs_blockInodesCount'[fs] = left - 1
                            /\ nextBlock' = nextBlock
                            /\ block = fs_blockInodes[fs]
                            /\ block = LastRecorded(fs) + 1
                    /\ fs_blockInodes'[fs] = block + 1
       /\ \A l \in Layers :
            /\ fs_inodeIndex[l] \in 0..LC_IBLOCK_MAX
            /\ fs_blockInodesCount[l] \in 0..LC_INODE_CLUSTER_SIZE
            /\ \A r \in 1..Len(fs_inodeBlocks[l]) : Len(fs_inodeBlocks[l][r]) <= LC_IBLOCK_MAX
            /\ \A r \in 1..Len(sb_inodeBlock[l]) : Len(sb_inodeBlock[l][r]) <= LC_IBLOCK_MAX
            /\ \A i \in Resident(l), j \in Resident(l) :
                  (i # j /\ inode[i].i_block # LC_INVALID_BLOCK)
                     => inode[i].i_block # inode[j].i_block]_vars

\* The layer has a full record and a second one, and the inode being flushed
\* is about to take the second block of a run.
C20_Witness ==
    \E t \in Threads :
        /\ Assigns(t)
        /\ Len(fs_inodeBlocks[th[t].fs] \o sb_inodeBlock[th[t].fs]) >= 2
        /\ fs_inodeBlocks[th[t].fs] # <<>>
        /\ fs_inodeIndex[th[t].fs] = 1
        /\ fs_blockInodesCount[th[t].fs] = 1

\* No thread is executing lc_flushInode.
NoFlushRuns == \A t \in Threads : ~InFlush(t)

\* The step is a call of lc_invalidateInodePages that found pages staged in fs.
Invalidates(fs) == pc' = pc /\ fs_inodePages'[fs] # fs_inodePages[fs]

\* C21: the staging count of a layer is the number of pages in its staging
\* list; outside lc_flushInode the count is below LC_CLUSTER_SIZE; no list
\* handed to lc_flushPageCluster has more than LC_CLUSTER_SIZE pages; and
\* lc_invalidateInodePages leaves the list empty with count 0 and writes
\* nothing.
C21_StagingBound ==
    /\ [](\A fs \in Layers :
            /\ fs_inodePagesCount[fs] = Len(fs_inodePages[fs])
            /\ NoFlushRuns => fs_inodePagesCount[fs] < LC_CLUSTER_SIZE)
    /\ [][\A fs \in Layers :
            /\ (\E t \in Threads : HandsCluster(t, fs))
               => /\ fs_inodePagesCount[fs] <= LC_CLUSTER_SIZE
                  /\ Len(fs_inodePages[fs]) <= LC_CLUSTER_SIZE
            /\ Invalidates(fs)
               => /\ fs_inodePages'[fs] = <<>>
                  /\ fs_inodePagesCount'[fs] = 0
                  /\ disk' = disk]_vars

\* The staged page of a flushed inode was released without being written:
\* the inode is clean and has a block, nothing is staged and the block was
\* never written.
C21_Witness ==
    /\ \A t \in Threads : pc[t] = "idle"
    /\ \E fs \in Layers :
          /\ fs_inodePages[fs] = <<>> /\ fs_inodePagesCount[fs] = 0
          /\ \E i \in Resident(fs) :
                /\ ~inode[i].i_dirty
                /\ inode[i].i_block # LC_INVALID_BLOCK
                /\ inode[i].i_block \notin DOMAIN disk

\* The layers whose ilock thread t holds, and the buckets whose mutex it holds.
IlocksOf(t) == {fs \in Layers : fs_ilock[fs] = t}
BucketsOf(t) == {<<fs, b>> \in Layers \X Buckets : ic_lock[fs][b] = t}

\* C22: a thread that holds a layer's ilock is inside the parent walk and is
\* not at an inode lock nor at another ilock, the only lock it takes there is
\* a bucket mutex; a thread that holds a bucket mutex is at the release of
\* that mutex and holds no second one; and a thread that waits for an ilock
\* or for a bucket mutex gets it, whatever inode locks the threads hold.
C22_LockOrder ==
    /\ [](\A t \in Threads :
            /\ IlocksOf(t) # {}
               => /\ IlocksOf(t) = {th[t].fs}
                  /\ pc[t] \in {"gp_recheck", "gp_walk", "gp_unlock", "cl_new", "ai_link",
                                "ai_unlock", "ai_setfs", "cl_dirty", "cl_count"}
            /\ BucketsOf(t) # {}
               => /\ Cardinality(BucketsOf(t)) = 1
                  /\ pc[t] = "ai_unlock")
    /\ \A t \in Threads :
          /\ (pc[t] = "gp_lock") ~> (pc[t] # "gp_lock")
          /\ (pc[t] = "ai_link") ~> (pc[t] # "ai_link")

\* A thread that keeps an inode locked waits for the ilock of the leaf, whose
\* holder has taken a bucket mutex for the clone it inserts.
C22_Witness ==
    \E t, u \in Threads :
        /\ pc[t] = "gp_lock" /\ HeldBy(t) # {}
        /\ fs_ilock[th[t].fs] = u
        /\ pc[u] = "ai_unlock" /\ BucketsOf(u) # {}

\* The child addresses of a chain that make an inode: in a slot before the
\* first zero slot of its record, not the invalid sentinel, and not the block
\* of a tombstone.
LiveChildren(chain, tombs) ==
    UNION {{Used(chain[r])[k] : k \in 1..Len(Used(chain[r]))} : r \in 1..Len(chain)}
    \ ({LC_INVALID_BLOCK} \cup tombs)

\* Record r of the chain has a tombstone in a slot that is read.
HasTombstone(chain, tombs, r) ==
    \E k \in 1..Len(Used(chain[r])) : chain[r][k] \in tombs

\* Record r of the chain with the slots of the tombstones read replaced by
\* the invalid sentinel.
Scrubbed(chain, tombs, r) ==
    [k \in 1..Len(chain[r]) |->
        IF k <= Len(Used(chain[r])) /\ chain[r][k] \in tombs
        THEN LC_INVALID_BLOCK ELSE chain[r][k]]

\* Thread t is past the loop of lc_readInodes.
LoopDone(t) == pc[t] \in {"ri_end", "ri_done"}

\* C23: lc_readInodes leaves its loop when the chain is at its end, and it
\* gets there; the cache then holds exactly one inode for each child address
\* that is in a slot before the first zero slot of its record, is not the
\* invalid sentinel and has a non-zero serialized mode, with i_block the
\* address and the serialized number and mode, and no other loaded inode; a
\* record of the chain is written back iff a tombstone was found in it, with
\* the slots of its tombstones set to the invalid sentinel.
C23_LoaderResult ==
    /\ [](\A t \in Threads :
            LoopDone(t)
            => LET fs == th[t].fs
                   chain == th[t].before.chain
                   live == LiveChildren(chain, th[t].before.tombs)
               IN  /\ th[t].rec = Len(chain) + 1
                   /\ \A a \in live :
                         Cardinality({i \in Resident(fs) : inode[i].i_block = a}) = 1
                   /\ \A i \in Resident(fs) :
                         /\ inode[i].i_block \in live \cup {LC_INVALID_BLOCK}
                         /\ inode[i].i_block \in live
                            => /\ inode[i].st_ino = disk[inode[i].i_block].st_ino
                               /\ inode[i].st_mode = disk[inode[i].i_block].st_mode
                               /\ inode[i].st_mode # NoMode
                   /\ Len(sb_inodeBlock[fs]) = Len(chain)
                   /\ \A r \in 1..Len(chain) :
                         sb_inodeBlock[fs][r] = Scrubbed(chain, th[t].before.tombs, r))
    /\ [][\A t \in Threads :
            (pc[t] = "ri_write" /\ pc'[t] = "ri_block")
            => ((sb_inodeBlock'[th[t].fs] # sb_inodeBlock[th[t].fs])
                <=> HasTombstone(th[t].before.chain, th[t].before.tombs, th[t].rec))]_vars
    /\ \A t \in Threads : (pc[t] = "ri_block") ~> LoopDone(t)

\* A load has returned that found the root and a tombstone and did not read
\* a child address behind a zero slot.
C23_Witness ==
    \E t \in Threads :
        /\ pc[t] = "ri_done"
        /\ LET chain == th[t].before.chain
           IN  /\ \E r \in 1..Len(chain) : HasTombstone(chain, th[t].before.tombs, r)
               /\ \E r \in 1..Len(chain) :
                     \E k \in (Len(Used(chain[r])) + 1)..Len(chain[r]) :
                        chain[r][k] \in ReadBlocks
               /\ fs_rootInode[th[t].fs] \in Resident(th[t].fs)

\* Thread t is between its lock of inode i and the unlock paired with it.
Paired(t, i) == pc[t] = "gi_done" /\ th[t].inode = i

\* C24: when every thread that locked an inode has issued its unlock, the
\* inode's reader/writer lock has no holder, also when the layer was frozen
\* between a lock and its unlock.
C24_LockBalance ==
    \A i \in 1..Len(inode) :
        (\A t \in Threads : ~Paired(t, i)) => inode[i].i_rwlock = NoLock

\* The inodes of layer fs that have a block.
OnDisk(fs) == {i \in Resident(fs) : inode[i].i_block # LC_INVALID_BLOCK}

\* C25: while two threads flush different inodes of one layer at the same
\* time, no two inodes of the layer have the same i_block, the block of every
\* inode stands in exactly one slot of the layer's inode-block records and no
\* slot before the index is left empty, the staging count is the number of
\* pages staged, and no block is staged twice.
C25_ConcurrentFlush ==
    \A fs \in Layers :
        /\ \A i, j \in OnDisk(fs) : i # j => inode[i].i_block # inode[j].i_block
        /\ LET chain == fs_inodeBlocks[fs] \o sb_inodeBlock[fs]
           IN  /\ \A i \in OnDisk(fs) :
                     Cardinality({x \in (1..Len(chain)) \X (1..LC_IBLOCK_MAX) :
                                     /\ x[2] <= Len(chain[x[1]])
                                     /\ chain[x[1]][x[2]] = inode[i].i_block}) = 1
               /\ fs_inodeBlocks[fs] # <<>>
                  => Len(Head(fs_inodeBlocks[fs])) = fs_inodeIndex[fs]
        /\ fs_inodePagesCount[fs] = Len(fs_inodePages[fs])
        /\ \A k, m \in 1..Len(fs_inodePages[fs]) :
              k # m => fs_inodePages[fs][k].p_block # fs_inodePages[fs][m].p_block

====
